---- MODULE Spec2Model ----
(***************************************************************************)
(* Leak-detecteur: the resilience scaffolding around the external calls.   *)
(*                                                                         *)
(*   SpecTB  the transient breaker, lib/errors/circuitBreaker.js           *)
(*           (class CircuitBreaker with execute), under overlapping calls  *)
(*   SpecPB  the durable breaker, lib/errors/PersistentCircuitBreaker.js,  *)
(*           several instances sharing one stored record                   *)
(*   SpecAI  analyzeWithAI, lib/ai_analyzer.js, behind the default-export  *)
(*           breaker (class CircuitBreaker with fire)                      *)
(*   SpecRC  detectRecurringCharges, lib/recurring_charges.js, applied to  *)
(*           bounded transaction lists                                     *)
(*   SpecPL  the audit pipeline, pages/api/analyze/fetch-transactions.js   *)
(*           and detect-leaks.js, one run per audit                        *)
(*                                                                         *)
(* Time is a discrete clock `now` (Date.now()), in ticks.                  *)
(***************************************************************************)
EXTENDS Integers, Sequences, FiniteSets, TLC

VARIABLES
    now,        \* Date.now()
    \* ---- transient breaker (SpecTB)
    tbCfg,      \* the constructor's options: thresholds and the two durations
    tb,         \* this.state, this.failureCount, this.successCount, this.nextAttempt
    calls,      \* the execute calls: where each is, when its work was invoked
    streak,     \* history: failures recorded in a row since CLOSED with failureCount 0
    streakAt,   \* history: Date.now() at the last failure of that run
    \* ---- durable breaker (SpecPB)
    pbCfg,      \* the constructor's options: thresholds and the wait
    db,         \* the row of circuit_breaker_states for the service name, if any
    inst,       \* the breaker instances: where each one's fire is, what it read
    detached,   \* updates sent by fail(), which fire does not await
    \* ---- analyzeWithAI behind its breaker (SpecAI)
    aib,        \* the module's circuitBreaker: state, counters, nextAttempt
    acalls,     \* the analyzeWithAI calls: where each is, what it resolved to
    \* ---- detectRecurringCharges (SpecRC)
    transactions,   \* the caller's array, handed to detectRecurringCharges
    given,          \* history: that array as it was before the first call
    recurring,      \* what the calls made so far have returned, in order
    \* ---- the audit pipeline: fetch-transactions, detect-leaks (SpecPL)
    audits,         \* table audits: status, total_waste_found, metadata.error, token
    txTable,        \* table transactions: the rows of each audit
    leaksTable,     \* table leaks: the rows of each audit
    runs,           \* the pipeline run of each audit: where it is, what it holds
    \* ---- analyzeWithAI as a function of its arguments and the API's answer (SpecRP)
    rpCharges,      \* analyzeWithAI's argument recurringCharges
    rpAuditId,      \* analyzeWithAI's argument auditId
    rpPrompt,       \* the prompt handed to circuitBreaker.fire, once sent
    rpResponse,     \* history: what the API call resolved with, if it did
    rpReturned,     \* what the promise of analyzeWithAI settled with
    \* ---- FallbackStrategies.fallbackLeakDetection as a function (SpecFB)
    fbCharges,      \* fallbackLeakDetection's argument recurringCharges
    fbCalled,       \* whether the call has been made
    fbOutcome,      \* what the promise of the call settled with
    \* ---- Cache.getOrSet (SpecCA)
    store,          \* this.store: the value kept for each key that has one
    ttl,            \* this.ttl: the expiry of each key that has one
    gets,           \* the getOrSet calls: where each is, what it did and settled with
    failedLast,     \* history: per key, the call whose failure is the latest getOrSet event
    \* ---- BatchProcessor (SpecBP, SpecBPLive)
    bpCfg,          \* the options of the constructor: maxBatchSize, maxWaitTime
    queue,          \* this.queue: the items waiting, oldest first
    timer,          \* this.timer: whether a timeout is set, and when it is due
    batches,        \* history: the batches handed to processBatch, in the order taken
    promises,       \* the promise of each add: its state, its value, when it was added
    \* ---- ErrorHandler.retry (SpecRT, SpecRTLive)
    retryOptions,   \* the options of the call: maxAttempts, initialDelay, maxDelay, exponentialBase
    retryCall,      \* the call of retry: where it is, its attempt, what fn did and when
    \* ---- ErrorHandler.attemptRecovery as a function (SpecAR)
    arError,        \* the error attemptRecovery is called with
    arResult,       \* what attemptRecovery returned, NoRecovery before the call
    \* ---- Durable breaker with one caller and a storage that can fail (SpecPS)
    psCfg,          \* the options of the breaker of the single caller
    psDb,           \* the row of the service in circuit_breaker_states, NoRow when there is none
    psFire,         \* the caller's current fire: where it is, what it read, what the action did
    psWrites,       \* the updates sent by fail that storage has not answered
    psHist,         \* history: the failures in a row since a CLOSED record with zero counters
    \* ---- The pipeline stage by stage, with the report (SpecPO, SpecPOLive)
    stage,          \* per audit: the rows and leaks whose insert is under way
    report,         \* per audit: where the report stage is and what it has read
    \* ---- The cache with the history of its deletes (SpecCD)
    purged          \* history, per key: deleted or cleared with nothing started, or nothing stored, for the key since

tbVars == <<tbCfg, tb, calls, streak, streakAt>>
pbVars == <<pbCfg, db, inst, detached>>
aiVars == <<aib, acalls>>
rcVars == <<transactions, given, recurring>>
plVars == <<audits, txTable, leaksTable, runs>>
rpVars == <<rpCharges, rpAuditId, rpPrompt, rpResponse, rpReturned>>
fbVars == <<fbCharges, fbCalled, fbOutcome>>
caVars == <<store, ttl, gets, failedLast>>
bpVars == <<bpCfg, queue, timer, batches, promises>>
rtVars == <<retryOptions, retryCall>>
arVars == <<arError, arResult>>
psVars == <<psCfg, psDb, psFire, psWrites, psHist>>
poVars == <<stage, report>>
cdVars == <<purged>>
vars == <<now, tbCfg, tb, calls, streak, streakAt, pbCfg, db, inst, detached, aib, acalls,
          transactions, given, recurring, audits, txTable, leaksTable, runs,
          rpCharges, rpAuditId, rpPrompt, rpResponse, rpReturned,
          fbCharges, fbCalled, fbOutcome,
          store, ttl, gets, failedLast,
          bpCfg, queue, timer, batches, promises,
          retryOptions, retryCall,
          arError, arResult,
          psCfg, psDb, psFire, psWrites, psHist,
          stage, report,
          purged>>
notTB == <<pbVars, aiVars, rcVars, plVars, rpVars, fbVars, caVars, bpVars, rtVars, arVars, psVars, poVars, cdVars>>
notPB == <<tbVars, aiVars, rcVars, plVars, rpVars, fbVars, caVars, bpVars, rtVars, arVars, psVars, poVars, cdVars>>
notAI == <<tbVars, pbVars, rcVars, plVars, rpVars, fbVars, caVars, bpVars, rtVars, arVars, psVars, poVars, cdVars>>
notRC == <<now, tbVars, pbVars, aiVars, plVars, rpVars, fbVars, caVars, bpVars, rtVars, arVars, psVars, poVars, cdVars>>
notPL == <<now, tbVars, pbVars, aiVars, rcVars, rpVars, fbVars, caVars, bpVars, rtVars, arVars, psVars, poVars, cdVars>>
notRP == <<now, tbVars, pbVars, aiVars, rcVars, plVars, fbVars, caVars, bpVars, rtVars, arVars, psVars, poVars, cdVars>>
notFB == <<now, tbVars, pbVars, aiVars, rcVars, plVars, rpVars, caVars, bpVars, rtVars, arVars, psVars, poVars, cdVars>>
notCA == <<tbVars, pbVars, aiVars, rcVars, plVars, rpVars, fbVars, bpVars, rtVars, arVars, psVars, poVars, cdVars>>
notBP == <<tbVars, pbVars, aiVars, rcVars, plVars, rpVars, fbVars, caVars, rtVars, arVars, psVars, poVars, cdVars>>
notRT == <<tbVars, pbVars, aiVars, rcVars, plVars, rpVars, fbVars, caVars, bpVars, arVars, psVars, poVars, cdVars>>
notAR == <<now, tbVars, pbVars, aiVars, rcVars, plVars, rpVars, fbVars, caVars, bpVars, rtVars, psVars, poVars, cdVars>>
notPS == <<tbVars, pbVars, aiVars, rcVars, plVars, rpVars, fbVars, caVars, bpVars, rtVars, arVars, poVars, cdVars>>
notPO == <<tbVars, pbVars, aiVars, rcVars, rpVars, fbVars, caVars, bpVars, rtVars, arVars, psVars, cdVars>>
notCD == <<tbVars, pbVars, aiVars, rcVars, plVars, rpVars, fbVars, bpVars, rtVars, arVars, psVars, poVars>>

\* ---------------------------------------------------------------- bounds
MaxTime == 4            \* the clock stops here
MaxThreshold == 2       \* thresholds range over 1..MaxThreshold
MaxFailureCount == 3    \* failures are not recorded beyond this count
NumCalls == 2           \* execute calls that may overlap
TimeoutTicks == 2       \* options.timeout, in ticks
ResetTicks == 2         \* options.resetTimeout, in ticks
NumInstances == 2       \* breaker instances (processes) sharing the stored record
MaxDetached == 1        \* updates of fail() that may be under way at once
WaitTicks == 1          \* the durable breaker's options.timeout, in ticks
PBMaxTime == 3          \* the clock of the durable breaker stops here
PBMaxThreshold == 2     \* its thresholds range over 1..PBMaxThreshold
NumAnalyses == 2        \* analyzeWithAI calls (audits) that may overlap
MaxTextLen == 3         \* tokens in the text of an AI response
AIMaxTime == 3          \* the clock of the analyzer stops here
AIMaxFailureCount == 4  \* its breaker records no failure beyond this count
AIWaitTicks == 2        \* the 10 s wait of its breaker, in ticks
MaxTxs == 3             \* transactions in a list handed to the detector
MaxRuns == 2            \* calls of the detector on one list
NumAudits == 2          \* audits whose pipelines run side by side
MaxLeaks == 2           \* leaks in one answer of the classifier
RPTextLen == 5          \* tokens in a response text of SpecRP
MaxCharges == 2         \* series in one call of the fallback
NumGets == 2            \* getOrSet calls
CAMaxTime == 2          \* the clock of SpecCA stops here
MaxItems == 3           \* add calls on the batch processor
BPMaxTime == 1          \* the clock of SpecBP stops here once no timeout is pending
MaxAttempts == 3        \* maxAttempts ranges over 1..MaxAttempts
RTMaxTime == 1          \* the clock of SpecRT stops here unless a timeout is running
MaxFragments == 2       \* a message has at most this many fragments
MaxFires == 3           \* the single caller calls fire at most this many times
PSMaxTime == 2          \* the clock of SpecPS stops here

Calls == 1..NumCalls

\* ======================================================================
\* Transient breaker: export class CircuitBreaker (execute)
\* ======================================================================

\* constructor: state CLOSED, both counters 0, nextAttempt = Date.now()
TBConstructor(t) ==
    [state |-> "CLOSED", failureCount |-> 0, successCount |-> 0, nextAttempt |-> t]

\* execute, lines 21-26: what the guard at the top of execute decides.
\*   "reject": OPEN and Date.now() < nextAttempt, the call throws
\*   "trial" : OPEN and the wait has elapsed, state becomes HALF_OPEN
\*   "pass"  : state is not OPEN
executeGate_Flipped(b, t) ==
    IF b.state = "OPEN"
    THEN IF t >= b.nextAttempt THEN "reject" ELSE "trial"
    ELSE "pass"

executeGate(b, t) ==
    IF b.state = "OPEN"
    THEN IF t < b.nextAttempt THEN "reject" ELSE "trial"
    ELSE "pass"

\* onSuccess, lines 44-54
onSuccess_KeepFailures(b, c) ==
    IF b.state = "HALF_OPEN"
    THEN IF b.successCount + 1 >= c.successThreshold
         THEN [b EXCEPT !.state = "CLOSED", !.successCount = 0]
         ELSE [b EXCEPT !.successCount = @ + 1]
    ELSE b

onSuccess(b, c) ==
    LET b1 == [b EXCEPT !.failureCount = 0]
    IN  IF b1.state = "HALF_OPEN"
        THEN LET b2 == [b1 EXCEPT !.successCount = @ + 1]
             IN  IF b2.successCount >= c.successThreshold
                 THEN [b2 EXCEPT !.state = "CLOSED", !.successCount = 0]
                 ELSE b2
        ELSE b1

\* onFailure, lines 56-73
onFailure_StaleDeadline(b, c, t) ==
    LET b1 == [b EXCEPT !.failureCount = @ + 1, !.successCount = 0]
    IN  IF b1.failureCount >= c.failureThreshold
        THEN [b1 EXCEPT !.state = "OPEN"]
        ELSE b1

onFailure_KeepSuccesses(b, c, t) ==
    LET b1 == [b EXCEPT !.failureCount = @ + 1]
    IN  IF b1.failureCount >= c.failureThreshold
        THEN [b1 EXCEPT !.state = "OPEN", !.nextAttempt = t + c.resetTimeout]
        ELSE b1

onFailure(b, c, t) ==
    LET b1 == [b EXCEPT !.failureCount = @ + 1, !.successCount = 0]
    IN  IF b1.failureCount >= c.failureThreshold
        THEN [b1 EXCEPT !.state = "OPEN", !.nextAttempt = t + c.resetTimeout]
        ELSE b1

\* History of the recorded outcomes: a run of failures starts at a breaker that
\* is CLOSED with failureCount 0 and ends at the next recorded success.
FailureRecorded ==
    /\ streak' = IF streak > 0 THEN streak + 1
                 ELSE IF tb.state = "CLOSED" /\ tb.failureCount = 0 THEN 1 ELSE 0
    /\ streakAt' = now

SuccessRecorded ==
    /\ streak' = 0
    /\ streakAt' = 0

\* A call that is not in flight.
IdleCall == [pc |-> "idle", invokedAt |-> 0, phase |-> "none", work |-> "none"]

\* The timer of Promise.race, line 32: setTimeout(..., this.timeout) set when
\* the work is invoked.
timerDeadline_NoTimer(call, c) == MaxTime + TimeoutTicks + 1

timerDeadline(call, c) == call.invokedAt + c.timeout

\* execute, lines 20-34: the guard, then fn() is invoked and raced against
\* the timer.  A rejected call throws before anything else happens.
execute(k) ==
    /\ calls[k].pc = "idle"
    /\ LET g == executeGate(tb, now)
       IN  IF g = "reject"
           THEN /\ calls' = [calls EXCEPT ![k].pc = "rejected"]
                /\ UNCHANGED tb
           ELSE /\ tb' = IF g = "trial" THEN [tb EXCEPT !.state = "HALF_OPEN"] ELSE tb
                /\ calls' = [calls EXCEPT ![k] =
                       [pc |-> "running", invokedAt |-> now,
                        phase |-> tb'.state, work |-> "pending"]]
    /\ UNCHANGED <<now, tbCfg, streak, streakAt>>
    /\ UNCHANGED notTB

\* execute, lines 36-37: fn() resolved first; onSuccess, the result is returned.
workResolves(k) ==
    /\ calls[k].pc = "running"
    /\ tb' = onSuccess(tb, tbCfg)
    /\ calls' = [calls EXCEPT ![k].pc = "succeeded", ![k].work = "done"]
    /\ SuccessRecorded
    /\ UNCHANGED <<now, tbCfg>>
    /\ UNCHANGED notTB

\* execute, lines 38-41: fn() rejected first; onFailure, the error is rethrown.
workRejects(k) ==
    /\ calls[k].pc = "running"
    /\ tb.failureCount < MaxFailureCount
    /\ tb' = onFailure(tb, tbCfg, now)
    /\ calls' = [calls EXCEPT ![k].pc = "failed", ![k].work = "done"]
    /\ FailureRecorded
    /\ UNCHANGED <<now, tbCfg>>
    /\ UNCHANGED notTB

\* execute, lines 31-33 and 38-41: the timer rejected first; onFailure, and
\* the Timeout error is thrown.  The work is still running.
timerFires(k) ==
    /\ calls[k].pc = "running"
    /\ now >= timerDeadline(calls[k], tbCfg)
    /\ tb.failureCount < MaxFailureCount
    /\ tb' = onFailure(tb, tbCfg, now)
    /\ calls' = [calls EXCEPT ![k].pc = "timedout"]
    /\ FailureRecorded
    /\ UNCHANGED <<now, tbCfg>>
    /\ UNCHANGED notTB

\* The breaker as the work's completion leaves it once the race is settled:
\* Promise.race has taken the timer's rejection, nothing else listens.
afterLateCompletion(b, c) == b

\* The work of a timed-out call completes (either way) after the race.
workCompletesLate(k) ==
    /\ calls[k].pc = "timedout"
    /\ calls[k].work = "pending"
    /\ tb' = afterLateCompletion(tb, tbCfg)
    /\ calls' = [calls EXCEPT ![k].work = "done"]
    /\ UNCHANGED <<now, tbCfg, streak, streakAt>>
    /\ UNCHANGED notTB

\* The caller has seen the outcome of its call; its next call is a new one.
callerContinues(k) ==
    /\ calls[k].pc \in {"rejected", "succeeded", "failed", "timedout"}
    /\ calls' = [calls EXCEPT ![k] = IdleCall]
    /\ UNCHANGED <<now, tbCfg, tb, streak, streakAt>>
    /\ UNCHANGED notTB

\* Time passes; a timer that is due fires before the clock moves on.
TBTick ==
    /\ now < MaxTime
    /\ \A k \in Calls : calls[k].pc = "running" => now < timerDeadline(calls[k], tbCfg)
    /\ now' = now + 1
    /\ UNCHANGED tbVars
    /\ UNCHANGED notTB


\* ======================================================================
\* Durable breaker: class PersistentCircuitBreaker (fire)
\* ======================================================================
Instances == 1..NumInstances

NoRow == [state |-> "none"]
Keep == "keep"          \* a column an update does not name
KeepN == -1

\* getState, lines 64-70: the record of an unseen service name.
initialState(t) ==
    [state |-> "CLOSED", failure_count |-> 0, success_count |-> 0, next_attempt_at |-> t]

\* updateState, lines 88-98: UPDATE ... WHERE service_name = this.serviceName,
\* the columns the caller names.  No row, nothing updated.
updateState(row, u) ==
    IF row = NoRow THEN NoRow
    ELSE [state           |-> IF u.state = Keep THEN row.state ELSE u.state,
          failure_count   |-> IF u.failure_count = KeepN THEN row.failure_count
                              ELSE u.failure_count,
          success_count   |-> IF u.success_count = KeepN THEN row.success_count
                              ELSE u.success_count,
          next_attempt_at |-> IF u.next_attempt_at = KeepN THEN row.next_attempt_at
                              ELSE u.next_attempt_at]

NoUpdate ==
    [state |-> Keep, failure_count |-> KeepN, success_count |-> KeepN,
     next_attempt_at |-> KeepN]

\* open, lines 162-168
open(c, t) == [NoUpdate EXCEPT !.state = "OPEN", !.next_attempt_at = t + c.timeout]

\* close, lines 173-179
close == [NoUpdate EXCEPT !.state = "CLOSED", !.failure_count = 0, !.success_count = 0]

\* fire, lines 108-114: the guard over the record that getState returned.
fireGate(row, t) ==
    IF row.state = "OPEN"
    THEN IF row.next_attempt_at <= t THEN "trial" ELSE "reject"
    ELSE "pass"

\* success, lines 131-143: the update it sends, from the record fire read.
success(row, c) ==
    IF row.state = "HALF_OPEN"
    THEN IF row.success_count + 1 >= c.successThreshold
         THEN close
         ELSE [NoUpdate EXCEPT !.success_count = row.success_count + 1]
    ELSE [NoUpdate EXCEPT !.failure_count = 0]

\* fail, lines 150-157: the update it sends, from the record fire read.
fail(row, c, t) ==
    IF row.failure_count + 1 >= c.failureThreshold
    THEN open(c, t)
    ELSE [NoUpdate EXCEPT !.failure_count = row.failure_count + 1]

IdleInstance == [pc |-> "idle", read |-> NoRow, trial |-> FALSE, firstUse |-> FALSE]

\* fire has settled for its caller: what it did is kept, what it read is gone.
Settled(r, outcome) == [r EXCEPT !.pc = outcome, !.read = NoRow]

\* fire, lines 108-117, once getState has returned `row`: reject, or send the
\* HALF_OPEN update and wait for it, or invoke the action.
afterGetState(i, row) ==
    LET g == fireGate(row, now)
    IN  inst' = [inst EXCEPT ![i] =
                   CASE g = "reject" -> Settled(@, "rejected")
                     [] g = "trial"  -> [@ EXCEPT !.pc = "toHalfOpen", !.read = row,
                                                  !.trial = TRUE]
                     [] OTHER        -> [@ EXCEPT !.pc = "action", !.read = row]]

\* fire line 106, getState lines 50-62: the SELECT is answered.  A row goes to
\* the guard of fire; no row (PGRST116) sends the INSERT of the initial record.
getStateSelect(i) ==
    /\ inst[i].pc = "idle"
    /\ IF db # NoRow
       THEN afterGetState(i, db)
       ELSE inst' = [inst EXCEPT ![i].pc = "inserting", ![i].firstUse = TRUE,
                                 ![i].read = initialState(now)]
    /\ UNCHANGED <<now, pbCfg, db, detached>>
    /\ UNCHANGED notPB

\* getState lines 72-80: the INSERT is answered.  service_name is UNIQUE
\* (leakdetector_schema.sql line 98): with a row already there the insert
\* fails and getState throws, so fire rejects before its guard.
getStateInsert(i) ==
    /\ inst[i].pc = "inserting"
    /\ IF db = NoRow
       THEN /\ db' = inst[i].read
            /\ afterGetState(i, inst[i].read)
       ELSE /\ inst' = [inst EXCEPT ![i] = Settled(@, "insertFailed")]
            /\ UNCHANGED db
    /\ UNCHANGED <<now, pbCfg, detached>>
    /\ UNCHANGED notPB

\* fire line 110: the awaited update { state: HALF_OPEN } is applied; the
\* record fire holds is the one it read.
halfOpenStored(i) ==
    /\ inst[i].pc = "toHalfOpen"
    /\ db' = updateState(db, [NoUpdate EXCEPT !.state = "HALF_OPEN"])
    /\ inst' = [inst EXCEPT ![i].pc = "action"]
    /\ UNCHANGED <<now, pbCfg, detached>>
    /\ UNCHANGED notPB

\* fire lines 117-118: the action resolved; success(state, response) sends
\* its update, and fire returns the promise of success, so it waits for it.
actionResolves(i) ==
    /\ inst[i].pc = "action"
    /\ inst' = [inst EXCEPT ![i].pc = "saving"]
    /\ UNCHANGED <<now, pbCfg, db, detached>>
    /\ UNCHANGED notPB

\* success lines 135-140: the update of success is applied, fire resolves.
successStored(i) ==
    /\ inst[i].pc = "saving"
    /\ db' = updateState(db, success(inst[i].read, pbCfg))
    /\ inst' = [inst EXCEPT ![i] = Settled(@, "resolved")]
    /\ UNCHANGED <<now, pbCfg, detached>>
    /\ UNCHANGED notPB

\* fire lines 119-122: the action rejected; fail(state, error) sends its
\* update and is not awaited, the error is rethrown at once.
actionRejects(i) ==
    /\ inst[i].pc = "action"
    /\ Cardinality(detached) < MaxDetached
    /\ detached' = detached \cup
           {[read |-> inst[i].read.state, trial |-> inst[i].trial, at |-> now,
             update |-> fail(inst[i].read, pbCfg, now)]}
    /\ inst' = [inst EXCEPT ![i] = Settled(@, "failed")]
    /\ UNCHANGED <<now, pbCfg, db>>
    /\ UNCHANGED notPB

\* fail lines 153-155: an update sent by fail is applied.
failStored(w) ==
    /\ w \in detached
    /\ db' = updateState(db, w.update)
    /\ detached' = detached \ {w}
    /\ UNCHANGED <<now, pbCfg, inst>>
    /\ UNCHANGED notPB

\* The caller has seen the outcome of fire; the instance's next fire is new.
fireReturns(i) ==
    /\ inst[i].pc \in {"rejected", "insertFailed", "resolved", "failed"}
    /\ inst' = [inst EXCEPT ![i] = IdleInstance]
    /\ UNCHANGED <<now, pbCfg, db, detached>>
    /\ UNCHANGED notPB

PBTick ==
    /\ now < PBMaxTime
    /\ now' = now + 1
    /\ UNCHANGED pbVars
    /\ UNCHANGED notPB

PBStart ==
    /\ pbCfg \in [failureThreshold : 1..PBMaxThreshold,
                  successThreshold : 1..PBMaxThreshold, timeout : {WaitTicks}]
    /\ db = NoRow
    /\ inst = [i \in Instances |-> IdleInstance]
    /\ detached = {}

\* ======================================================================
\* analyzeWithAI (lib/ai_analyzer.js) behind the default-export breaker,
\* class CircuitBreaker with fire (lib/errors/circuitBreaker.js, 125-212)
\* ======================================================================
Analyses == 1..NumAnalyses

\* constructor defaults, circuitBreaker.js lines 136-138: ai_analyzer.js
\* line 24 passes no options.
AIFailureThreshold == 3
AISuccessThreshold == 1

\* constructor, lines 140-143
AIBConstructor(t) ==
    [state |-> "CLOSED", failureCount |-> 0, successCount |-> 0, nextAttempt |-> t]

\* fire, lines 152-158
aiFireGate(b, t) ==
    IF b.state = "OPEN"
    THEN IF b.nextAttempt <= t THEN "trial" ELSE "reject"
    ELSE "pass"

\* close, lines 207-211
aiClose(b) == [b EXCEPT !.state = "CLOSED", !.failureCount = 0, !.successCount = 0]

\* success, lines 174-183
aiSuccess_KeepFailures(b) ==
    IF b.state = "HALF_OPEN"
    THEN LET b2 == [b EXCEPT !.successCount = @ + 1]
         IN  IF b2.successCount >= AISuccessThreshold THEN aiClose(b2) ELSE b2
    ELSE b

aiSuccess(b) ==
    LET b1 == IF b.state = "HALF_OPEN"
              THEN LET b2 == [b EXCEPT !.successCount = @ + 1]
                   IN  IF b2.successCount >= AISuccessThreshold THEN aiClose(b2) ELSE b2
              ELSE b
    IN  [b1 EXCEPT !.failureCount = 0]

\* open, lines 199-202
aiOpen(b, t) == [b EXCEPT !.state = "OPEN", !.nextAttempt = t + AIWaitTicks]

\* fail, lines 189-194
aiFail(b, t) ==
    LET b1 == [b EXCEPT !.failureCount = @ + 1]
    IN  IF b1.failureCount >= AIFailureThreshold THEN aiOpen(b1, t) ELSE b1

\* The text of a response, as tokens: "w" prose without brackets, "[" and
\* "]", "o" a JSON object, "n" the JSON null.  Values that follow each other
\* inside brackets are taken as separated by commas.
Tokens == {"w", "[", "]", "o", "n"}
Texts == UNION {[1..n -> Tokens] : n \in 0..MaxTextLen}

\* What the API call resolves to: a message whose content[0].text is a text,
\* or a value without that shape.
Responses == [shape : {"message"}, text : Texts] \cup {[shape |-> "other", text |-> <<>>]}

Positions(text, tok) == {p \in 1..Len(text) : text[p] = tok}
MinOf(S) == CHOOSE x \in S : \A y \in S : x <= y
MaxOf(S) == CHOOSE x \in S : \A y \in S : x >= y

\* content.match(/\[[\s\S]*\]/), line 76: from the first "[" to the last "]"
\* after it; <<>> stands for null, no match.
jsonMatch(text) ==
    LET opens == Positions(text, "[")
        closes == Positions(text, "]")
    IN  IF opens = {} \/ closes = {} \/ MinOf(opens) > MaxOf(closes)
        THEN <<>>
        ELSE SubSeq(text, MinOf(opens), MaxOf(closes))

\* JSON.parse of a matched substring, line 83.  The walk keeps the depth of
\* brackets and the elements met at depth 1: "o", "n", or "a" for an array.
\* Prose, or a bracket that closes the value before the end, is a SyntaxError.
RECURSIVE parseFrom(_, _, _, _)
parseFrom(s, p, depth, elems) ==
    IF p > Len(s)
    THEN IF depth = 0 THEN [ok |-> TRUE, value |-> elems] ELSE [ok |-> FALSE, value |-> <<>>]
    ELSE IF depth = 0 /\ p > 1
    THEN [ok |-> FALSE, value |-> <<>>]
    ELSE CASE s[p] = "w" -> [ok |-> FALSE, value |-> <<>>]
           [] s[p] = "[" -> parseFrom(s, p + 1, depth + 1,
                                      IF depth = 1 THEN Append(elems, "a") ELSE elems)
           [] s[p] = "]" -> IF depth = 0 THEN [ok |-> FALSE, value |-> <<>>]
                            ELSE parseFrom(s, p + 1, depth - 1, elems)
           [] OTHER      -> IF depth = 0 THEN [ok |-> FALSE, value |-> <<>>]
                            ELSE parseFrom(s, p + 1, depth,
                                           IF depth = 1 THEN Append(elems, s[p]) ELSE elems)

jsonParse(s) == parseFrom(s, 1, 0, <<>>)

\* The callback of aiLeaks.map, lines 86-96: the leak of one element.  An
\* object gives its fields; an array has none of them (undefined).
formatLeak(e, auditId) ==
    [audit_id |-> auditId, fields |-> IF e = "o" THEN "given" ELSE "undefined",
     evidence |-> "ai_analysis"]

\* aiLeaks.map(...), lines 86-96: reading a field of null is a TypeError.
formatLeaks(elems, auditId) ==
    IF \E p \in 1..Len(elems) : elems[p] = "n"
    THEN [ok |-> FALSE, value |-> <<>>]
    ELSE [ok |-> TRUE, value |-> [p \in 1..Len(elems) |-> formatLeak(elems[p], auditId)]]

\* The try block after fire has resolved, lines 75-96: what it returns, or
\* that it threw.
handleResponse(resp, auditId) ==
    IF resp.shape # "message"
    THEN [how |-> "throw", value |-> <<>>, diag |-> "error"]
    ELSE LET m == jsonMatch(resp.text)
         IN  IF m = <<>>
             THEN [how |-> "return", value |-> <<>>, diag |-> "noArray"]
             ELSE LET parsed == jsonParse(m)
                  IN  IF ~parsed.ok
                      THEN [how |-> "throw", value |-> <<>>, diag |-> "error"]
                      ELSE LET out == formatLeaks(parsed.value, auditId)
                           IN  IF out.ok
                               THEN [how |-> "return", value |-> out.value, diag |-> "none"]
                               ELSE [how |-> "throw", value |-> <<>>, diag |-> "error"]

Thrown == [how |-> "throw", value |-> <<>>, diag |-> "error"]

\* try/catch of analyzeWithAI, lines 72-100: how the promise settles.
settle_NoCatch(o) ==
    IF o.how = "return"
    THEN [kind |-> "resolved", value |-> o.value, diag |-> o.diag]
    ELSE [kind |-> "rejected", value |-> <<>>, diag |-> o.diag]

settle(o) ==
    IF o.how = "return"
    THEN [kind |-> "resolved", value |-> o.value, diag |-> o.diag]
    ELSE [kind |-> "resolved", value |-> <<>>, diag |-> o.diag]

\* phase is the state of the breaker in which the API call of the analysis
\* was sent ("none": no call under way).
IdleAnalysis ==
    [pc |-> "idle", via |-> "none", phase |-> "none",
     result |-> [kind |-> "none", value |-> <<>>, diag |-> "none"]]

\* analyzeWithAI line 73, fire lines 151-161: the guard of the breaker; an
\* open circuit throws into the catch, otherwise the API call is sent.
analyzeWithAI(j) ==
    /\ acalls[j].pc = "idle"
    /\ LET g == aiFireGate(aib, now)
       IN  IF g = "reject"
           THEN /\ acalls' = [acalls EXCEPT ![j] =
                      [pc |-> "done", via |-> "circuitOpen", phase |-> "none",
                       result |-> settle(Thrown)]]
                /\ UNCHANGED aib
           ELSE /\ aib' = IF g = "trial" THEN [aib EXCEPT !.state = "HALF_OPEN"] ELSE aib
                /\ acalls' = [acalls EXCEPT ![j].pc = "awaiting",
                                             ![j].phase = aib'.state]
    /\ UNCHANGED now
    /\ UNCHANGED notAI

\* fire lines 161-162, analyzeWithAI lines 75-96: the API call resolved.
apiResolves(j, resp) ==
    /\ acalls[j].pc = "awaiting"
    /\ aib' = aiSuccess(aib)
    /\ acalls' = [acalls EXCEPT ![j] =
           [pc |-> "done", via |-> "response", phase |-> "none",
            result |-> settle(handleResponse(resp, j))]]
    /\ UNCHANGED now
    /\ UNCHANGED notAI

\* fire lines 163-166, analyzeWithAI lines 97-100: the API call rejected.
apiRejects(j) ==
    /\ acalls[j].pc = "awaiting"
    /\ aib.failureCount < AIMaxFailureCount
    /\ aib' = aiFail(aib, now)
    /\ acalls' = [acalls EXCEPT ![j] =
           [pc |-> "done", via |-> "apiError", phase |-> "none",
            result |-> settle(Thrown)]]
    /\ UNCHANGED now
    /\ UNCHANGED notAI

\* The caller has the result; its next call is a new one.
analysisReturns(j) ==
    /\ acalls[j].pc = "done"
    /\ acalls' = [acalls EXCEPT ![j] = IdleAnalysis]
    /\ UNCHANGED <<now, aib>>
    /\ UNCHANGED notAI

AITick ==
    /\ now < AIMaxTime
    /\ now' = now + 1
    /\ UNCHANGED aiVars
    /\ UNCHANGED notAI

\* ======================================================================
\* detectRecurringCharges (lib/recurring_charges.js, lines 23-86)
\* ======================================================================
\* A merchant name is a sequence of tokens: words, in the case they are
\* written in, and blanks.
Blank == " "

\* String.prototype.toLowerCase, line 28, token by token.
lowerOf(tok) ==
    CASE tok = "Netflix" -> "netflix"
      [] tok = "NETFLIX" -> "netflix"
      [] tok = "VSCode"  -> "vscode"
      [] tok = "Hulu"    -> "hulu"
      [] OTHER           -> tok

toLowerCase(name) == [p \in 1..Len(name) |-> lowerOf(name[p])]

\* String.prototype.trim, line 28: the blanks at both ends are dropped, the
\* ones inside are kept.
trim(name) ==
    LET inked == {p \in 1..Len(name) : name[p] # Blank}
    IN  IF inked = {} THEN <<>> ELSE SubSeq(name, MinOf(inked), MaxOf(inked))

\* line 28: the key of a transaction's group
merchantOf_CaseSensitive(tx) == trim(tx.merchant_name)

merchantOf(tx) == trim(toLowerCase(tx.merchant_name))

\* lines 27-33, 38: the keys of merchantGroups in the order Object.entries
\* gives them, that of their first transaction.
RECURSIVE merchantKeys(_, _)
merchantKeys(txs, seen) ==
    IF txs = <<>> THEN seen
    ELSE LET m == merchantOf(Head(txs))
         IN  merchantKeys(Tail(txs),
                          IF \E p \in 1..Len(seen) : seen[p] = m THEN seen
                          ELSE Append(seen, m))

\* lines 29-32: merchantGroups[merchant], the transactions pushed in the
\* order of the input.
groupOf(txs, m) == SelectSeq(txs, LAMBDA tx : merchantOf(tx) = m)

\* The place of a transaction in an array sorted by date: after the ones
\* whose date is not later (Array.prototype.sort is stable).
RECURSIVE insertByDate(_, _)
insertByDate(sorted, tx) ==
    IF sorted = <<>> THEN <<tx>>
    ELSE IF sorted[Len(sorted)].date <= tx.date THEN Append(sorted, tx)
    ELSE Append(insertByDate(SubSeq(sorted, 1, Len(sorted) - 1), tx), sorted[Len(sorted)])

\* txs.sort((a, b) => new Date(a.date) - new Date(b.date)), line 41
RECURSIVE sortByDate(_)
sortByDate(txs) ==
    IF txs = <<>> THEN <<>>
    ELSE insertByDate(sortByDate(SubSeq(txs, 1, Len(txs) - 1)), txs[Len(txs)])

\* lines 44-50: the whole days between charges that follow each other.  A
\* date is the day number of a calendar date (midnight UTC), so the quotient
\* by the milliseconds of a day is the difference of the day numbers.
intervalsOf(txs) == [i \in 1..(Len(txs) - 1) |-> txs[i + 1].date - txs[i].date]

RECURSIVE SumSeq(_)
SumSeq(q) == IF q = <<>> THEN 0 ELSE Head(q) + SumSeq(Tail(q))

\* lines 54-60, in the order of Object.entries
INTERVALS ==
    << [freq |-> "weekly",    min |-> 6,   max |-> 9],
       [freq |-> "bi-weekly", min |-> 13,  max |-> 16],
       [freq |-> "monthly",   min |-> 28,  max |-> 32],
       [freq |-> "quarterly", min |-> 88,  max |-> 92],
       [freq |-> "annual",    min |-> 363, max |-> 367] >>

\* line 64 for avgInterval = total / count (line 52): the quotient is at
\* least min exactly when total is at least min * count.
inRange_OpenAbove(total, count, range) ==
    total >= range.min * count /\ total < range.max * count

inRange(total, count, range) ==
    total >= range.min * count /\ total <= range.max * count

\* lines 62-68: the first band that holds the average, "null" if none does.
\* With no interval at all the average is 0 / 0, NaN, in no band.
frequencyOf(intervals) ==
    LET total == SumSeq(intervals)
        count == Len(intervals)
        hits == {p \in 1..Len(INTERVALS) : inRange(total, count, INTERVALS[p])}
    IN  IF count = 0 \/ hits = {} THEN "null" ELSE INTERVALS[MinOf(hits)].freq

\* line 39: a group is looked at when it has three charges or more
enoughCharges_Two(txs) == Len(txs) >= 2

enoughCharges(txs) == Len(txs) >= 3

\* parseFloat(t.amount) of each member, line 71.  Amounts are in cents.
amountsOf(txs) == [i \in 1..Len(txs) |-> txs[i].amount]

\* (total / count).toFixed(2), lines 71 and 77: the decimal string with two
\* digits after the point, here the number of cents nearest to the quotient.
\* A quotient at exactly half a cent is rounded by its binary value; the
\* amounts of Amounts give no such quotient.
toFixed2_Truncated(total, count) == total \div count

toFixed2(total, count) == (2 * total + count) \div (2 * count)

\* lines 73-80: the series pushed for a group, txs being the sorted group
seriesOf(m, txs) ==
    [merchant |-> m,
     transactions |-> txs,
     frequency |-> frequencyOf(intervalsOf(txs)),
     avgAmount |-> toFixed2(SumSeq(amountsOf(txs)), Len(txs)),
     lastCharge |-> txs[Len(txs)].date,
     chargeCount |-> Len(txs)]

\* lines 23-86: the array the call returns
detectRecurringCharges(txs) ==
    LET keys == merchantKeys(txs, <<>>)
        sortedOf(m) == sortByDate(groupOf(txs, m))
        reported(m) == /\ enoughCharges(groupOf(txs, m))
                       /\ frequencyOf(intervalsOf(sortedOf(m))) # "null"
        kept == SelectSeq(keys, reported)
    IN  [p \in 1..Len(kept) |-> seriesOf(kept[p], sortedOf(kept[p]))]

\* The caller's array after the call: lines 29-32 push its elements into new
\* arrays and line 41 sorts those, so it is as it was.
afterDetect_SortedInPlace(txs) == sortByDate(txs)

afterDetect(txs) == txs

\* The lists handed to the detector: one merchant in two spellings and with
\* two amounts, another merchant; dates at 0, 1 or 2 times a number of days.
Spellings == {<<"Netflix">>, <<Blank, "netflix", Blank>>}
Units == {7, 32, 90, 365}
Offsets == {0, 1, 2}
Amounts == {1000, 1004}
TxDomain(u) ==
    [merchant_name : Spellings, date : {o * u : o \in Offsets}, amount : Amounts]
       \cup [merchant_name : {<<"Hulu">>}, date : {o * u : o \in Offsets}, amount : {1000}]
TxLists(u) == UNION {[1..n -> TxDomain(u)] : n \in 0..MaxTxs}

\* One call of detectRecurringCharges on the caller's array.
detect ==
    /\ Len(recurring) < MaxRuns
    /\ recurring' = Append(recurring, detectRecurringCharges(transactions))
    /\ transactions' = afterDetect(transactions)
    /\ UNCHANGED given
    /\ UNCHANGED notRC

\* The detector while another component is looked at.
RCUnused ==
    /\ transactions = <<>>
    /\ given = <<>>
    /\ recurring = <<>>

\* ======================================================================
\* The audit pipeline: pages/api/analyze/fetch-transactions.js and
\* pages/api/analyze/detect-leaks.js (lib/transaction_helpers.test.js,
\* lines 166-218), with the rule-based fallback of lib/errors/fallbacks.js
\* ======================================================================
Audits == 1..NumAudits

\* What the bank returns for an audit.  Plaid gives expenses as negative
\* amounts, and a charge may come without merchant_name.
FeedVSCode ==
    << [merchant_name |-> <<"VSCode">>, name |-> <<"VSCode">>, date |-> 0,  amount |-> -1000],
       [merchant_name |-> <<"VSCode">>, name |-> <<"VSCode">>, date |-> 30, amount |-> -1000],
       [merchant_name |-> <<"VSCode">>, name |-> <<"VSCode">>, date |-> 60, amount |-> -1000] >>
FeedNetflix ==
    << [merchant_name |-> <<"Netflix">>, name |-> <<"NETFLIX">>, date |-> 46, amount |-> -1599],
       [merchant_name |-> <<"Netflix">>, name |-> <<"NETFLIX">>, date |-> 53, amount |-> -1599],
       [merchant_name |-> <<"Netflix">>, name |-> <<"NETFLIX">>, date |-> 60, amount |-> -1599] >>
FeedSparse ==
    << [merchant_name |-> "null", name |-> <<"Hulu">>, date |-> 60, amount |-> -799] >>
Feeds == {<<>>, FeedVSCode, FeedNetflix, FeedSparse}

\* The day the pipeline runs, as a day number like the dates of the charges.
RunDays == {64, 200}

\* fetch-transactions.js lines 44-51: the row stored for a charge
txInsert(tx, auditId) ==
    [audit_id |-> auditId,
     date |-> tx.date,
     amount |-> IF tx.amount < 0 THEN -tx.amount ELSE tx.amount,
     merchant_name |-> IF tx.merchant_name # "null" THEN tx.merchant_name
                       ELSE IF tx.name # "null" THEN tx.name ELSE <<"Unknown">>]

txInserts(txs, auditId) == [i \in 1..Len(txs) |-> txInsert(txs[i], auditId)]

\* What analyzeWithAI resolves to (lib/ai_analyzer.js lines 72-100): the
\* leaks of a response, each with the audit's id, or the empty list when the
\* API call failed or the circuit was open.
AnnualCosts == {2388, 12000}
LeakLists(auditId) ==
    UNION {[1..n -> [audit_id : {auditId}, annual_cost : AnnualCosts]] : n \in 0..MaxLeaks}
Classifications(auditId) ==
    [via : {"response"}, leaks : LeakLists(auditId)]
       \cup [via : {"apiError", "circuitOpen"}, leaks : {settle(Thrown).value}]

\* detect-leaks lines 188-190: the leaks are inserted when there are any
shouldInsert_Always(leaks) == TRUE

shouldInsert(leaks) == Len(leaks) > 0

\* line 193: leaks.reduce((sum, leak) => sum + parseFloat(leak.annual_cost), 0)
totalWaste(leaks) == SumSeq([i \in 1..Len(leaks) |-> leaks[i].annual_cost])

\* lines 171-175: the audit's rows, ordered by date
selectTransactions(auditId) == sortByDate(txTable[auditId])

IdleRun == [pc |-> "idle", error |-> "none", via |-> "none", leaks |-> <<>>,
            aiCalls |-> 0, leakInserts |-> 0]

\* ---- FallbackStrategies.fallbackLeakDetection, fallbacks.js lines 17-70.
\* Costs are in cents; a monthly cost is kept as twelve times its value, so
\* that avgAmount / 12 is exact.  confidence_score is in hundredths.
freeTools == {"vscode", "winzip", "winrar", "vlc", "7-zip"}

\* lines 29, 46, 55
monthlyCostX12(charge) ==
    IF charge.frequency = "monthly" THEN 12 * charge.avgAmount ELSE charge.avgAmount

\* lines 30, 47
annualCost(charge) ==
    IF charge.frequency = "annual" THEN charge.avgAmount ELSE 12 * charge.avgAmount

fallbackLeak(charge, type, score) ==
    [merchant_name |-> charge.merchant, leak_type |-> type,
     monthly_cost_x12 |-> monthlyCostX12(charge),
     annual_cost |-> IF type = "unused" THEN monthlyCostX12(charge) ELSE annualCost(charge),
     confidence_score |-> score]

\* lines 21-35: a free tool is named in the merchant
paysForFreeTool(charge) ==
    LET merchant == toLowerCase(charge.merchant)
    IN  \E p \in 1..Len(merchant) : merchant[p] \in freeTools

\* lines 38-42: more than 90 whole days since the last charge
isZombie(charge, today) == today - charge.lastCharge > 90

\* lines 55-56: more than $100 a month
isHighCost(charge) == monthlyCostX12(charge) > 12 * 10000

\* line 62: avgAmount is the string of toFixed(2) (recurring_charges.js line
\* 77), so for a monthly charge monthlyCost is a string and
\* monthlyCost.toFixed is not a function.
highCostThrows(charge) == isHighCost(charge) /\ charge.frequency = "monthly"

\* lines 20-67 for one charge: the leaks pushed, in the order of the rules
leaksOfCharge(charge, today) ==
    (IF paysForFreeTool(charge) THEN <<fallbackLeak(charge, "free_alternative", 95)>> ELSE <<>>)
       \o (IF isZombie(charge, today) THEN <<fallbackLeak(charge, "zombie", 75)>> ELSE <<>>)
       \o (IF isHighCost(charge) THEN <<fallbackLeak(charge, "unused", 60)>> ELSE <<>>)

RECURSIVE leaksOfCharges(_, _)
leaksOfCharges(charges, today) ==
    IF charges = <<>> THEN <<>>
    ELSE leaksOfCharge(Head(charges), today) \o leaksOfCharges(Tail(charges), today)

\* lines 17-70: what the promise settles to
fallbackLeakDetection(recurringCharges, today) ==
    IF \E p \in 1..Len(recurringCharges) : highCostThrows(recurringCharges[p])
    THEN [ok |-> FALSE, leaks |-> <<>>]
    ELSE [ok |-> TRUE, leaks |-> leaksOfCharges(recurringCharges, today)]

\* ---- fetch-transactions.js
\* lines 13-27: the audit is read; without an access token the answer is 400,
\* otherwise the status becomes analyzing and the bank is asked.
fetchTransactions(a) ==
    /\ runs[a].pc = "idle"
    /\ IF ~audits[a].plaid_access_token
       THEN /\ runs' = [runs EXCEPT ![a].pc = "noToken"]
            /\ UNCHANGED audits
       ELSE /\ audits' = [audits EXCEPT ![a].status = "analyzing"]
            /\ runs' = [runs EXCEPT ![a].pc = "fetching"]
    /\ UNCHANGED <<txTable, leaksTable>>
    /\ UNCHANGED notPL

\* lines 35-64: plaidCircuit.execute resolved; the rows are inserted if there
\* are any, detect-leaks is requested without awaiting it, the answer is 200.
bankResolves(a, feed) ==
    /\ runs[a].pc = "fetching"
    /\ txTable' = [txTable EXCEPT ![a] =
           IF Len(feed) > 0 THEN @ \o txInserts(feed, a) ELSE @]
    /\ runs' = [runs EXCEPT ![a].pc = "triggered"]
    /\ UNCHANGED <<audits, leaksTable>>
    /\ UNCHANGED notPL

\* lines 35-41, 65-66: plaidCircuit.execute threw (the bank failed, the call
\* timed out or the circuit is open); the catch hands the error to
\* ErrorHandler.handle, which inserts it into errors.
bankRejects(a, message) ==
    /\ runs[a].pc = "fetching"
    /\ runs' = [runs EXCEPT ![a].pc = "handling", ![a].error = message]
    /\ UNCHANGED <<audits, txTable, leaksTable>>
    /\ UNCHANGED notPL

\* lines 66-71: handle resolved; the audit is marked failed with the message.
errorHandled(a) ==
    /\ runs[a].pc = "handling"
    /\ audits' = [audits EXCEPT ![a].status = "failed", ![a].error = runs[a].error]
    /\ runs' = [runs EXCEPT ![a].pc = "fetchFailed"]
    /\ UNCHANGED <<txTable, leaksTable>>
    /\ UNCHANGED notPL

\* line 66: handle rejected (errorHandler.js lines 28-34 await the insert
\* outside any try); the error leaves the catch block before line 67.
errorHandlerThrows(a) ==
    /\ runs[a].pc = "handling"
    /\ runs' = [runs EXCEPT ![a].pc = "fetchCrashed"]
    /\ UNCHANGED <<audits, txTable, leaksTable>>
    /\ UNCHANGED notPL

\* lines 58-62: the request to detect-leaks did not get through; the catch
\* of the fetch logs it.
triggerLost(a) ==
    /\ runs[a].pc = "triggered"
    /\ runs' = [runs EXCEPT ![a].pc = "notTriggered"]
    /\ UNCHANGED <<audits, txTable, leaksTable>>
    /\ UNCHANGED notPL

\* ---- detect-leaks.js (lib/transaction_helpers.test.js lines 166-218)
\* lines 171-185, 213-216: the rows are read; with none the handler throws
\* and its catch answers 500; otherwise the recurring charges are detected
\* and handed to analyzeWithAI.
detectLeaks(a) ==
    /\ runs[a].pc = "triggered"
    /\ IF Len(selectTransactions(a)) = 0
       THEN runs' = [runs EXCEPT ![a].pc = "detectFailed",
                                 ![a].error = "No transactions found"]
       ELSE runs' = [runs EXCEPT ![a].pc = "classifying", ![a].aiCalls = @ + 1]
    /\ UNCHANGED <<audits, txTable, leaksTable>>
    /\ UNCHANGED notPL

\* lines 185-212: analyzeWithAI resolved; the leaks are inserted if there are
\* any, the total is computed and the audit is marked completed.
classified(a, c) ==
    /\ runs[a].pc = "classifying"
    /\ leaksTable' = [leaksTable EXCEPT ![a] = IF shouldInsert(c.leaks) THEN @ \o c.leaks ELSE @]
    /\ audits' = [audits EXCEPT ![a].status = "completed",
                                ![a].total_waste_found = totalWaste(c.leaks)]
    /\ runs' = [runs EXCEPT ![a].pc = "done", ![a].via = c.via, ![a].leaks = c.leaks,
                            ![a].leakInserts = IF shouldInsert(c.leaks) THEN @ + 1 ELSE @]
    /\ UNCHANGED txTable
    /\ UNCHANGED notPL

\* ======================================================================
\* analyzeWithAI as a function: lib/ai_analyzer.js, lines 45-101, with the
\* breaker closed.  The arguments are drawn at the start; the API answers
\* the prompt with any text, or fails.
\* ======================================================================
LongTexts == UNION {[1..n -> Tokens] : n \in 0..RPTextLen}
LongResponses == [shape : {"message"}, text : LongTexts] \cup {[shape |-> "other", text |-> <<>>]}

\* The lists of series analyzeWithAI is given: none, or one series.
ChargeLists ==
    {<<>>, <<[merchant |-> <<"netflix">>, frequency |-> "monthly", avgAmount |-> 1000]>>}

\* lines 46-70: the prompt carries JSON.stringify(recurringCharges, null, 2);
\* no line looks at the length of the list.
NoPrompt == [sent |-> FALSE, charges |-> <<>>]
promptOf(recurringList) == [sent |-> TRUE, charges |-> recurringList]

NoResponse == [shape |-> "none", text |-> <<>>]
NotSettled == [kind |-> "none", value |-> <<>>, diag |-> "none"]

\* lines 46-73: the prompt is built and handed to circuitBreaker.fire.
rpFire ==
    /\ rpPrompt = NoPrompt
    /\ rpPrompt' = promptOf(rpCharges)
    /\ UNCHANGED <<rpCharges, rpAuditId, rpResponse, rpReturned>>
    /\ UNCHANGED notRP

\* lines 75-96: the API call resolved with resp.
rpResolves(resp) ==
    /\ rpPrompt.sent
    /\ rpReturned = NotSettled
    /\ rpReturned' = settle(handleResponse(resp, rpAuditId))
    /\ rpResponse' = resp
    /\ UNCHANGED <<rpCharges, rpAuditId, rpPrompt>>
    /\ UNCHANGED notRP

\* lines 97-100: the API call rejected.
rpRejects ==
    /\ rpPrompt.sent
    /\ rpReturned = NotSettled
    /\ rpReturned' = settle(Thrown)
    /\ UNCHANGED <<rpCharges, rpAuditId, rpPrompt, rpResponse>>
    /\ UNCHANGED notRP

\* analyzeWithAI as a function while another component is looked at.
RPUnused ==
    /\ rpCharges = <<>>
    /\ rpAuditId = 1
    /\ rpPrompt = NoPrompt
    /\ rpResponse = NoResponse
    /\ rpReturned = NotSettled

\* ======================================================================
\* FallbackStrategies.fallbackLeakDetection as a function of the series it
\* is given and of the day it runs: lib/errors/fallbacks.js, lines 17-70.
\* The series are as detectRecurringCharges makes them (recurring_charges.js
\* lines 70-80): merchant is the lowercased key, avgAmount the string of
\* toFixed(2), here in cents.
\* ======================================================================
Frequencies == {INTERVALS[i].freq : i \in 1..Len(INTERVALS)}

\* $10, $150 (more than $100 a month when monthly) and $1500 (more than $100
\* a month when divided by 12); last charged 95, 90 or 35 days before FBToday.
SeriesDomain ==
    [merchant : {<<"vscode">>, <<"netflix">>}, frequency : Frequencies,
     avgAmount : {1000, 15000, 150000}, lastCharge : {0, 5, 60}]
SeriesLists == UNION {[1..n -> SeriesDomain] : n \in 0..MaxCharges}
FBToday == {95}

\* lines 17-70: one call; Date.now() is the day now.
fallbackRuns ==
    /\ ~fbCalled
    /\ fbCalled' = TRUE
    /\ fbOutcome' = fallbackLeakDetection(fbCharges, now)
    /\ UNCHANGED fbCharges
    /\ UNCHANGED notFB

\* The fallback as a function while another component is looked at.
FBUnused ==
    /\ fbCharges = <<>>
    /\ fbCalled = FALSE
    /\ fbOutcome = [ok |-> TRUE, leaks |-> <<>>]

\* ======================================================================
\* The cache: lib/optimization/cache.js, class Cache, lines 4-47.  The
\* clock now counts seconds.  The Maps store and ttl are functions whose
\* domain is the set of keys present.
\* ======================================================================
Gets == 1..NumGets
CacheKeys == {"k1", "k2"}
\* What computeFn may resolve with; getAuditSummary's computeFn returns the
\* data of an rpc, which is null when the rpc fails (lines 70-76).
CacheValues == {"v1", "null"}
CacheErrors == {"e1"}
TtlSeconds == {1}
EmptyMap == [k \in {} |-> 0]

\* Map.prototype.set and Map.prototype.delete
mapSet(m, key, v) == [k \in DOMAIN m \cup {key} |-> IF k = key THEN v ELSE m[k]]
mapDelete_Keep(m, key) == m
mapDelete(m, key) == [k \in DOMAIN m \ {key} |-> m[k]]

\* get, lines 15-26: what it returns ("null" for an absent or expired key)
\* and whether it deletes the entry.
isExpired_AtExpiry(key, t) == key \in DOMAIN ttl /\ t >= ttl[key]
isExpired(key, t) == key \in DOMAIN ttl /\ t > ttl[key]
cacheGet(key, t) ==
    IF key \notin DOMAIN store THEN [value |-> "null", deletes |-> FALSE]
    ELSE IF isExpired(key, t) THEN [value |-> "null", deletes |-> TRUE]
    ELSE [value |-> store[key], deletes |-> FALSE]

\* getOrSet line 41: the cached value is returned unless it is null.
isHit(key, cached) == cached # "null"

\* invoked counts the calls of fn; deleted and stored tell what the call
\* itself did to the Maps; overwritten tells that the key has been set by
\* someone else since this call began; follows is the failed call, if any,
\* that this call is the next getOrSet of (0: none).
IdleGet ==
    [pc |-> "idle", key |-> "k1", ttlSeconds |-> 1, result |-> "none", invoked |-> 0,
     deleted |-> FALSE, stored |-> FALSE, overwritten |-> FALSE, follows |-> 0]

\* getOrSet up to the await, lines 39-43: get(key), the return of a cached
\* value, or the call of fn.  The calls are numbered in the order they are
\* made.
getOrSetStep(c, key, ttlSeconds) ==
    /\ gets[c].pc = "idle"
    /\ IF c = 1 THEN TRUE ELSE gets[c - 1].pc # "idle"
    /\ LET g == cacheGet(key, now)
       IN  /\ store' = IF g.deletes THEN mapDelete(store, key) ELSE store
           /\ ttl' = IF g.deletes THEN mapDelete(ttl, key) ELSE ttl
           /\ gets' = [gets EXCEPT ![c] =
                  IF isHit(key, g.value)
                  THEN [@ EXCEPT !.pc = "returned", !.key = key, !.ttlSeconds = ttlSeconds,
                                 !.result = g.value, !.deleted = g.deletes,
                                 !.follows = failedLast[key]]
                  ELSE [@ EXCEPT !.pc = "computing", !.key = key, !.ttlSeconds = ttlSeconds,
                                 !.invoked = @ + 1, !.deleted = g.deletes,
                                 !.follows = failedLast[key]]]
    /\ failedLast' = [failedLast EXCEPT ![key] = 0]
    /\ UNCHANGED now

getOrSet(c, key, ttlSeconds) ==
    /\ getOrSetStep(c, key, ttlSeconds)
    /\ UNCHANGED notCA

\* lines 43-45, set lines 10-13: fn resolved with v; it is stored with the
\* expiry now + ttlSeconds and returned.
computeResolvesStep(c, v) ==
    /\ gets[c].pc = "computing"
    /\ store' = mapSet(store, gets[c].key, v)
    /\ ttl' = mapSet(ttl, gets[c].key, now + gets[c].ttlSeconds)
    /\ gets' = [d \in Gets |->
          IF d = c
          THEN [gets[d] EXCEPT !.pc = "returned", !.result = v, !.stored = TRUE]
          ELSE IF gets[d].key = gets[c].key /\ gets[d].pc \in {"computing", "rejected"}
          THEN [gets[d] EXCEPT !.overwritten = TRUE]
          ELSE gets[d]]
    /\ failedLast' = [failedLast EXCEPT ![gets[c].key] = 0]
    /\ UNCHANGED now

computeResolves(c, v) ==
    /\ computeResolvesStep(c, v)
    /\ UNCHANGED notCA

\* set called directly, lines 10-13.
cacheSetStep(key, v, ttlSeconds) ==
    /\ store' = mapSet(store, key, v)
    /\ ttl' = mapSet(ttl, key, now + ttlSeconds)
    /\ gets' = [d \in Gets |->
          IF gets[d].key = key /\ gets[d].pc \in {"computing", "rejected"}
          THEN [gets[d] EXCEPT !.overwritten = TRUE]
          ELSE gets[d]]
    /\ UNCHANGED <<failedLast, now>>

cacheSet(key, v, ttlSeconds) ==
    /\ cacheSetStep(key, v, ttlSeconds)
    /\ UNCHANGED notCA

\* delete, lines 28-31.
cacheDeleteStep(key) ==
    /\ store' = mapDelete(store, key)
    /\ ttl' = mapDelete(ttl, key)
    /\ UNCHANGED <<gets, failedLast, now>>

cacheDelete(key) ==
    /\ cacheDeleteStep(key)
    /\ UNCHANGED notCA

\* clear, lines 33-36.
cacheClearStep ==
    /\ store' = EmptyMap
    /\ ttl' = EmptyMap
    /\ UNCHANGED <<gets, failedLast, now>>

cacheClear ==
    /\ cacheClearStep
    /\ UNCHANGED notCA

\* line 43: fn rejected with e; the await throws and nothing else runs.
computeRejectsStep(c, e) ==
    /\ gets[c].pc = "computing"
    /\ gets' = [gets EXCEPT ![c].pc = "rejected", ![c].result = e]
    /\ failedLast' = [failedLast EXCEPT ![gets[c].key] = c]
    /\ UNCHANGED <<store, ttl, now>>

computeRejects(c, e) ==
    /\ computeRejectsStep(c, e)
    /\ UNCHANGED notCA

\* A second passes.
CATickStep ==
    /\ now < CAMaxTime
    /\ now' = now + 1
    /\ UNCHANGED caVars

CATick ==
    /\ CATickStep
    /\ UNCHANGED notCA

\* The cache while another component is looked at.
CAUnused ==
    /\ store = EmptyMap
    /\ ttl = EmptyMap
    /\ gets = [c \in Gets |-> IdleGet]
    /\ failedLast = [k \in CacheKeys |-> 0]

\* ======================================================================
\* The batch processor: lib/optimization/batchProcessor.js, class
\* BatchProcessor, lines 9-77.  Items are numbered in the order they are
\* added; the clock now counts units of maxWaitTime's scale.
\* ======================================================================
Items == 1..MaxItems
\* What processBatch hands back: its results for the first items of the
\* batch, one after the other (an array that may be too short), or an error.
BatchResults == <<"r1", "r2">>
BatchErrors == {"e1"}
\* The options the processor is constructed with, lines 17-18.
BatchSizes == {1, 2}
WaitTimes == {1}
NoTimer == [set |-> FALSE, due |-> 0]
NoPromise == [state |-> "none", value |-> "none", at |-> 0]

\* The number of add calls made so far.
addedCount == Cardinality({i \in Items : promises[i].state # "none"})

\* this.queue.splice(0, this.maxBatchSize), line 53: what it returns, and
\* what it leaves in the queue.
spliceTaken(q, n) ==
    IF Len(q) <= n THEN q ELSE SubSeq(q, 1, n)
spliceLeft_All(q, n) == q
spliceLeft(q, n) ==
    IF Len(q) <= n THEN <<>> ELSE SubSeq(q, n + 1, Len(q))

\* results[index], line 59; beyond the end of results it is undefined.
resultAt_First(results, index) ==
    IF 1 <= Len(results) THEN results[1] ELSE "undefined"
resultAt(results, index) ==
    IF index <= Len(results) THEN results[index] ELSE "undefined"

\* flush up to its await, lines 46-56: the timer is cleared; unless the queue
\* is empty a batch is taken from its front and handed to processBatch.  via
\* tells what called flush.
flushQueue(q) == IF q = <<>> THEN q ELSE spliceLeft(q, bpCfg.maxBatchSize)
flushBatches(q, bs, via) ==
    IF q = <<>> THEN bs
    ELSE Append(bs, [items |-> spliceTaken(q, bpCfg.maxBatchSize), status |-> "running",
                     results |-> <<>>, error |-> "none", via |-> via])

\* lines 34-36: the timeout is set unless one is pending.
timerAfterAdd_NotSet(t, time) == t
timerAfterAdd(t, time) ==
    IF ~t.set THEN [set |-> TRUE, due |-> time + bpCfg.maxWaitTime] ELSE t

\* add, lines 28-38: the item is queued; the queue is flushed if it has
\* reached maxBatchSize, otherwise the timeout is set unless one is pending.
add(item) ==
    /\ item = addedCount + 1
    /\ promises' = [promises EXCEPT ![item] = [state |-> "pending", value |-> "none", at |-> now]]
    /\ LET q == Append(queue, item)
       IN  IF Len(q) >= bpCfg.maxBatchSize
           THEN /\ timer' = NoTimer
                /\ queue' = flushQueue(q)
                /\ batches' = flushBatches(q, batches, "size")
           ELSE /\ timer' = timerAfterAdd(timer, now)
                /\ queue' = q
                /\ UNCHANGED batches
    /\ UNCHANGED <<bpCfg, now>>
    /\ UNCHANGED notBP

\* The timeout of line 35 fires: flush, lines 45-56.
flushTimerFires ==
    /\ timer.set
    /\ now >= timer.due
    /\ timer' = NoTimer
    /\ queue' = flushQueue(queue)
    /\ batches' = flushBatches(queue, batches, "timer")
    /\ UNCHANGED <<bpCfg, promises, now>>
    /\ UNCHANGED notBP

\* flush called by the user, lines 45-56.
flush ==
    /\ timer' = NoTimer
    /\ queue' = flushQueue(queue)
    /\ batches' = flushBatches(queue, batches, "manual")
    /\ UNCHANGED <<bpCfg, promises, now>>
    /\ UNCHANGED notBP

Positions1(q, x) == {p \in 1..Len(q) : q[p] = x}

\* lines 56-60: processBatch of batch b resolved with results, an array that
\* may be shorter than the batch; each item of the batch is resolved with the
\* result at its index.
processResolves(b, results) ==
    /\ b \in 1..Len(batches)
    /\ batches[b].status = "running"
    /\ Len(results) <= Len(batches[b].items)
    /\ batches' = [batches EXCEPT ![b].status = "resolved", ![b].results = results]
    /\ promises' = [i \in Items |->
          IF Positions1(batches[b].items, i) # {}
          THEN [promises[i] EXCEPT
                  !.state = "resolved",
                  !.value = resultAt(results, MinOf(Positions1(batches[b].items, i)))]
          ELSE promises[i]]
    /\ UNCHANGED <<bpCfg, queue, timer, now>>
    /\ UNCHANGED notBP

\* lines 56, 61-65: processBatch of batch b failed; each item of the batch is
\* rejected with the error.
processRejects(b, error) ==
    /\ b \in 1..Len(batches)
    /\ batches[b].status = "running"
    /\ batches' = [batches EXCEPT ![b].status = "rejected", ![b].error = error]
    /\ promises' = [i \in Items |->
          IF Positions1(batches[b].items, i) # {}
          THEN [promises[i] EXCEPT !.state = "rejected", !.value = error]
          ELSE promises[i]]
    /\ UNCHANGED <<bpCfg, queue, timer, now>>
    /\ UNCHANGED notBP

\* Time passes, but not beyond the moment a timeout is due; the clock stops
\* at BPMaxTime unless a timeout is still to fire.
BPTick ==
    /\ IF timer.set THEN now < timer.due ELSE now < BPMaxTime
    /\ now' = now + 1
    /\ UNCHANGED bpVars
    /\ UNCHANGED notBP

\* The batch processor while another component is looked at.
BPUnused ==
    /\ bpCfg = [maxBatchSize |-> 1, maxWaitTime |-> 1]
    /\ queue = <<>>
    /\ timer = NoTimer
    /\ batches = <<>>
    /\ promises = [i \in Items |-> NoPromise]

\* ======================================================================
\* ErrorHandler.retry: lib/errors/errorHandler.js, lines 97-128.  Delays and
\* the clock now are in one unit of time.
\* ======================================================================
RetryValues == {"v1"}
RetryErrors == {"e1", "e2"}
\* The options a call is made with, lines 98-103.
InitialDelays == {1, 2}
MaxDelays == {2, 3}
ExponentialBases == {1, 2}

RECURSIVE pow(_, _)
pow(b, n) == IF n = 0 THEN 1 ELSE b * pow(b, n - 1)

\* lines 113-116: Math.min(initialDelay * Math.pow(exponentialBase, attempt - 1), maxDelay)
delayOf_Uncapped(attempt) ==
    retryOptions.initialDelay * pow(retryOptions.exponentialBase, attempt - 1)
delayOf(attempt) ==
    LET d == retryOptions.initialDelay * pow(retryOptions.exponentialBase, attempt - 1)
    IN  IF d <= retryOptions.maxDelay THEN d ELSE retryOptions.maxDelay

\* starts: when each attempt called fn; fails: when each failed attempt failed
\* and with what error.
IdleRetry ==
    [pc |-> "idle", attempt |-> 0, wakeAt |-> 0, outcome |-> "none", settledAt |-> 0,
     starts |-> <<>>, fails |-> <<>>]

\* lines 97-107: the loop starts with attempt 1 and calls fn.
retry ==
    /\ retryCall.pc = "idle"
    /\ retryCall' = [retryCall EXCEPT !.pc = "calling", !.attempt = 1,
                                      !.starts = Append(@, now)]
    /\ UNCHANGED <<retryOptions, now>>
    /\ UNCHANGED notRT

\* line 107: fn resolved with v, which is returned.
fnResolves(v) ==
    /\ retryCall.pc = "calling"
    /\ retryCall' = [retryCall EXCEPT !.pc = "resolved", !.outcome = v, !.settledAt = now]
    /\ UNCHANGED <<retryOptions, now>>
    /\ UNCHANGED notRT

\* lines 108-125: fn failed with e; the last attempt throws it, any other
\* one sets the timeout of its delay.
fnRejects(e) ==
    /\ retryCall.pc = "calling"
    /\ retryCall' =
          IF retryCall.attempt = retryOptions.maxAttempts
          THEN [retryCall EXCEPT !.pc = "rejected", !.outcome = e, !.settledAt = now,
                                 !.fails = Append(@, [at |-> now, error |-> e])]
          ELSE [retryCall EXCEPT !.pc = "waiting",
                                 !.wakeAt = now + delayOf(retryCall.attempt),
                                 !.fails = Append(@, [at |-> now, error |-> e])]
    /\ UNCHANGED <<retryOptions, now>>
    /\ UNCHANGED notRT

\* lines 125, 105-107: the timeout is over; the next attempt calls fn.
delayElapsed ==
    /\ retryCall.pc = "waiting"
    /\ now >= retryCall.wakeAt
    /\ retryCall' = [retryCall EXCEPT !.pc = "calling", !.attempt = @ + 1,
                                      !.starts = Append(@, now)]
    /\ UNCHANGED <<retryOptions, now>>
    /\ UNCHANGED notRT

\* Time passes, but not beyond the end of a timeout; the clock stops at
\* RTMaxTime unless a timeout is running.
RTTick ==
    /\ IF retryCall.pc = "waiting" THEN now < retryCall.wakeAt ELSE now < RTMaxTime
    /\ retryCall.pc \notin {"resolved", "rejected"}
    /\ now' = now + 1
    /\ UNCHANGED rtVars
    /\ UNCHANGED notRT

\* retry while another component is looked at.
RTUnused ==
    /\ retryOptions = [maxAttempts |-> 1, initialDelay |-> 1, maxDelay |-> 2,
                       exponentialBase |-> 1]
    /\ retryCall = IdleRetry

\* ======================================================================
\* ErrorHandler.attemptRecovery: lib/errors/errorHandler.js, lines 41-94.
\* A message is a sequence of fragments; the fragments the rules look for
\* are in it beside ones that only resemble them.
\* ======================================================================
Fragments == {"ITEM_LOGIN_REQUIRED", "rate limit", "anthropic", "connection",
              "Anthropic", "timeout"}
ErrorTypes == {"StripeCardError", "StripeAPIError", "undefined"}
Messages == UNION {[1..n -> Fragments] : n \in 0..MaxFragments}
\* An error without a message has hasMessage FALSE: error.message is undefined.
RecoveryErrors ==
    [hasMessage : {TRUE}, message : Messages, type : ErrorTypes]
       \cup [hasMessage : {FALSE}, message : {<<>>}, type : ErrorTypes]
NoRecovery == [called |-> FALSE, recoverable |-> FALSE, action |-> "none", retryAfter |-> 0]

\* error.message?.includes(fragment), e.g. line 43
includes(error, fragment) ==
    /\ error.hasMessage
    /\ \E i \in 1..Len(error.message) : error.message[i] = fragment

recovery(recoverable, action, retryAfter) ==
    [called |-> TRUE, recoverable |-> recoverable, action |-> action, retryAfter |-> retryAfter]

\* lines 41-94
attemptRecovery_RateLimitFirst(error) ==
    IF includes(error, "rate limit") THEN recovery(TRUE, "retry_later", 3600)
    ELSE IF includes(error, "ITEM_LOGIN_REQUIRED") THEN recovery(TRUE, "plaid_reauth", 0)
    ELSE IF error.type = "StripeCardError" THEN recovery(TRUE, "check_payment_status", 0)
    ELSE IF includes(error, "anthropic") THEN recovery(TRUE, "fallback_analysis", 0)
    ELSE IF includes(error, "connection") THEN recovery(TRUE, "retry_connection", 0)
    ELSE recovery(FALSE, "manual_intervention", 0)
attemptRecovery(error) ==
    IF includes(error, "ITEM_LOGIN_REQUIRED") THEN recovery(TRUE, "plaid_reauth", 0)
    ELSE IF includes(error, "rate limit") THEN recovery(TRUE, "retry_later", 3600)
    ELSE IF error.type = "StripeCardError" THEN recovery(TRUE, "check_payment_status", 0)
    ELSE IF includes(error, "anthropic") THEN recovery(TRUE, "fallback_analysis", 0)
    ELSE IF includes(error, "connection") THEN recovery(TRUE, "retry_connection", 0)
    ELSE recovery(FALSE, "manual_intervention", 0)

\* The call of attemptRecovery, as handle makes it at line 38.
recoveryAttempted ==
    /\ ~arResult.called
    /\ arResult' = attemptRecovery(arError)
    /\ UNCHANGED arError
    /\ UNCHANGED notAR

\* attemptRecovery while another component is looked at.
ARUnused ==
    /\ arError = [hasMessage |-> FALSE, message |-> <<>>, type |-> "undefined"]
    /\ arResult = NoRecovery

\* ======================================================================
\* Durable breaker, one caller: PersistentCircuitBreaker.fire called again
\* and again by one caller that awaits each call, with a storage whose
\* requests can fail.  The operators of the record are those above.
\* ======================================================================
Fires == 1..MaxFires
PSThresholds == {1, 2}

IdleFire ==
    [pc |-> "idle", n |-> 0, read |-> NoRow, invoked |-> FALSE,
     actionOutcome |-> "none", outcome |-> "none"]

NoHistory == [armed |-> FALSE, streak |-> 0, lastFailAt |-> 0, faults |-> FALSE]

\* fire has settled with `outcome`.
settled(outcome) == [psFire EXCEPT !.pc = "settled", !.outcome = outcome]

\* A streak of failures starts at a fire that reads a CLOSED record with
\* zero counters.
histAfterRead(row) ==
    IF psHist.streak = 0
    THEN [psHist EXCEPT !.armed = (row.state = "CLOSED" /\ row.failure_count = 0
                                      /\ row.success_count = 0)]
    ELSE psHist

\* fire lines 108-117 once getState has returned `row`.
afterRead(row) ==
    LET g == fireGate(row, now)
    IN  /\ psFire' = CASE g = "reject" -> settled("circuitOpen")
                       [] g = "trial"  -> [psFire EXCEPT !.pc = "toHalfOpen", !.read = row]
                       [] OTHER        -> [psFire EXCEPT !.pc = "action", !.read = row,
                                                         !.invoked = TRUE]
        /\ psHist' = histAfterRead(row)

\* line 105-106: the caller, whose previous fire has settled, calls fire;
\* getState sends its SELECT.
fire ==
    /\ psFire.pc \in {"idle", "settled"}
    /\ psFire.n < MaxFires
    /\ psFire' = [IdleFire EXCEPT !.pc = "selecting", !.n = psFire.n + 1]
    /\ UNCHANGED <<now, psCfg, psDb, psWrites, psHist>>
    /\ UNCHANGED notPS

\* getState lines 50-70: the SELECT is answered: with an error (line 57),
\* with the row, or with no row, and then the INSERT is sent.
selectAnswered(ok) ==
    /\ psFire.pc = "selecting"
    /\ IF ~ok
       THEN /\ psFire' = settled("storageError")
            /\ psHist' = [psHist EXCEPT !.faults = TRUE]
       ELSE IF psDb # NoRow
       THEN afterRead(psDb)
       ELSE /\ psFire' = [psFire EXCEPT !.pc = "inserting", !.read = initialState(now)]
            /\ UNCHANGED psHist
    /\ UNCHANGED <<now, psCfg, psDb, psWrites>>
    /\ UNCHANGED notPS

\* getState lines 72-80: the INSERT is answered.
insertAnswered(ok) ==
    /\ psFire.pc = "inserting"
    /\ IF ok
       THEN /\ psDb' = psFire.read
            /\ afterRead(psFire.read)
       ELSE /\ psFire' = settled("storageError")
            /\ psHist' = [psHist EXCEPT !.faults = TRUE]
            /\ UNCHANGED psDb
    /\ UNCHANGED <<now, psCfg, psWrites>>
    /\ UNCHANGED notPS

\* fire line 110, updateState lines 88-98: the awaited update
\* { state: HALF_OPEN } is answered; an error is thrown out of fire.
halfOpenUpdated(ok) ==
    /\ psFire.pc = "toHalfOpen"
    /\ IF ok
       THEN /\ psDb' = updateState(psDb, [NoUpdate EXCEPT !.state = "HALF_OPEN"])
            /\ psFire' = [psFire EXCEPT !.pc = "action", !.invoked = TRUE]
            /\ UNCHANGED psHist
       ELSE /\ psFire' = settled("storageError")
            /\ psHist' = [psHist EXCEPT !.faults = TRUE]
            /\ UNCHANGED psDb
    /\ UNCHANGED <<now, psCfg, psWrites>>
    /\ UNCHANGED notPS

\* fire lines 117-118: the action resolved; fire returns the promise of
\* success(state, response), which sends its update.
actionSucceeds ==
    /\ psFire.pc = "action"
    /\ psFire' = [psFire EXCEPT !.pc = "saving", !.actionOutcome = "resolved"]
    /\ psHist' = [psHist EXCEPT !.armed = FALSE, !.streak = 0]
    /\ UNCHANGED <<now, psCfg, psDb, psWrites>>
    /\ UNCHANGED notPS

\* success lines 131-143, updateState lines 95-97: the update of success is
\* answered.  Stored, success returns the response; an error is thrown by
\* updateState through success, whose promise is the one fire returned.
successUpdated(ok) ==
    /\ psFire.pc = "saving"
    /\ IF ok
       THEN /\ psDb' = updateState(psDb, success(psFire.read, psCfg))
            /\ psFire' = settled("result")
            /\ UNCHANGED psHist
       ELSE /\ psFire' = settled("storageError")
            /\ psHist' = [psHist EXCEPT !.faults = TRUE]
            /\ UNCHANGED psDb
    /\ UNCHANGED <<now, psCfg, psWrites>>
    /\ UNCHANGED notPS

\* fire lines 119-122: the action rejected; fail(state, error) sends its
\* update and is not awaited; the action's error is rethrown.
actionFails ==
    /\ psFire.pc = "action"
    /\ psWrites' = psWrites \cup {[fire |-> psFire.n, update |-> fail(psFire.read, psCfg, now)]}
    /\ psFire' = [settled("actionError") EXCEPT !.actionOutcome = "rejected"]
    /\ psHist' = [psHist EXCEPT !.streak = IF psHist.armed THEN @ + 1 ELSE @,
                                !.lastFailAt = now]
    /\ UNCHANGED <<now, psCfg, psDb>>
    /\ UNCHANGED notPS

\* fail lines 150-157, updateState lines 88-98: an update sent by fail is
\* answered; nobody awaits it, an error ends in an unhandled rejection.
failUpdated(w, ok) ==
    /\ w \in psWrites
    /\ psWrites' = psWrites \ {w}
    /\ IF ok
       THEN /\ psDb' = updateState(psDb, w.update)
            /\ UNCHANGED psHist
       ELSE /\ psHist' = [psHist EXCEPT !.faults = TRUE]
            /\ UNCHANGED psDb
    /\ UNCHANGED <<now, psCfg, psFire>>
    /\ UNCHANGED notPS

PSTick ==
    /\ now < PSMaxTime
    /\ now' = now + 1
    /\ UNCHANGED psVars
    /\ UNCHANGED notPS

\* The single caller's breaker while another component is looked at.
PSUnused ==
    /\ psCfg = [failureThreshold |-> 1, successThreshold |-> 1, timeout |-> WaitTicks]
    /\ psDb = NoRow
    /\ psFire = IdleFire
    /\ psWrites = {}
    /\ psHist = NoHistory

\* ======================================================================
\* The pipeline of one audit stage by stage: fetch-transactions.js,
\* detect-leaks.js and reports/generate.js with every awaited request of
\* storage as a step of its own.  The steps the pipeline above already has
\* one by one (fetchTransactions, bankRejects, errorHandled,
\* errorHandlerThrows, triggerLost, detectLeaks) are those.  The requests to
\* storage are answered without error.
\* ======================================================================
POAudits == {1}

NoStage == [rows |-> <<>>, txPending |-> FALSE, leaksPending |-> FALSE]
NoReport == [pc |-> "none", audit |-> [status |-> "none", total_waste_found |-> "null"],
             leaks |-> <<>>]

\* fetch-transactions.js lines 53-58: with rows the handler awaits their
\* insert before it requests detect-leaks.
stageAfterBank_NoAwait(rows) == "triggered"
stageAfterBank(rows) == IF Len(rows) > 0 THEN "storingTx" ELSE "triggered"

\* detect-leaks lines 188-203: with leaks the handler awaits their insert
\* before it sends the update of the audit.
stageAfterAnalysis(leaks) == IF shouldInsert(leaks) THEN "storingLeaks" ELSE "updating"

\* fetch-transactions.js lines 35-55: plaidCircuit.execute resolved; the
\* rows are built and, if there are any, their insert is sent.
bankAnswers(a, feed) ==
    /\ runs[a].pc = "fetching"
    /\ stage' = [stage EXCEPT ![a].rows = txInserts(feed, a),
                              ![a].txPending = Len(feed) > 0]
    /\ runs' = [runs EXCEPT ![a].pc = stageAfterBank(feed)]
    /\ UNCHANGED <<now, audits, txTable, leaksTable, report>>
    /\ UNCHANGED notPO

\* lines 54-64: the insert of the rows is answered; the handler, which
\* awaited it, requests detect-leaks and answers 200.
transactionsStored(a) ==
    /\ stage[a].txPending
    /\ txTable' = [txTable EXCEPT ![a] = @ \o stage[a].rows]
    /\ stage' = [stage EXCEPT ![a].txPending = FALSE]
    /\ runs' = [runs EXCEPT ![a].pc = IF @ = "storingTx" THEN "triggered" ELSE @]
    /\ UNCHANGED <<now, audits, leaksTable, report>>
    /\ UNCHANGED notPO

\* detect-leaks lines 185-190: analyzeWithAI resolved; with leaks their
\* insert is sent, without any the update of the audit is.
leaksClassified(a, c) ==
    /\ runs[a].pc = "classifying"
    /\ runs' = [runs EXCEPT ![a].pc = stageAfterAnalysis(c.leaks), ![a].via = c.via,
                            ![a].leaks = c.leaks,
                            ![a].leakInserts = IF shouldInsert(c.leaks) THEN @ + 1 ELSE @]
    /\ stage' = [stage EXCEPT ![a].leaksPending = shouldInsert(c.leaks)]
    /\ UNCHANGED <<now, audits, txTable, leaksTable, report>>
    /\ UNCHANGED notPO

\* lines 189-203: the insert of the leaks is answered; the total is
\* computed and the update of the audit is sent.
leaksStored(a) ==
    /\ stage[a].leaksPending
    /\ leaksTable' = [leaksTable EXCEPT ![a] = @ \o runs[a].leaks]
    /\ stage' = [stage EXCEPT ![a].leaksPending = FALSE]
    /\ runs' = [runs EXCEPT ![a].pc = IF @ = "storingLeaks" THEN "updating" ELSE @]
    /\ UNCHANGED <<now, audits, txTable, report>>
    /\ UNCHANGED notPO

\* lines 193-212: the update of the audit is answered; the handler requests
\* reports/generate without awaiting it and answers 200.
auditUpdated(a) ==
    /\ runs[a].pc = "updating"
    /\ audits' = [audits EXCEPT ![a].status = "completed",
                                ![a].total_waste_found = totalWaste(runs[a].leaks)]
    /\ runs' = [runs EXCEPT ![a].pc = "done"]
    /\ report' = [report EXCEPT ![a].pc = "requested"]
    /\ UNCHANGED <<now, txTable, leaksTable, stage>>
    /\ UNCHANGED notPO

\* detect-leaks lines 206-210: the request to reports/generate did not get
\* through; the catch of the fetch logs it.
reportLost(a) ==
    /\ report[a].pc = "requested"
    /\ report' = [report EXCEPT ![a].pc = "lost"]
    /\ UNCHANGED <<now, audits, txTable, leaksTable, runs, stage>>
    /\ UNCHANGED notPO

\* reports/generate.js lines 35-43: the report stage reads the audit.
reportReadsAudit(a) ==
    /\ report[a].pc = "requested"
    /\ report' = [report EXCEPT ![a].pc = "readingLeaks",
                                ![a].audit = [status |-> audits[a].status,
                                              total_waste_found |-> audits[a].total_waste_found]]
    /\ UNCHANGED <<now, audits, txTable, leaksTable, runs, stage>>
    /\ UNCHANGED notPO

\* reports/generate.js lines 46-73: the report stage reads the leaks, and
\* the report is made of them and of the audit and sent.
reportReadsLeaks(a) ==
    /\ report[a].pc = "readingLeaks"
    /\ report' = [report EXCEPT ![a].pc = "sent", ![a].leaks = leaksTable[a]]
    /\ UNCHANGED <<now, audits, txTable, leaksTable, runs, stage>>
    /\ UNCHANGED notPO

\* The stages while another component is looked at.
POUnused ==
    /\ stage = [a \in Audits |-> NoStage]
    /\ report = [a \in Audits |-> NoReport]

\* ======================================================================
\* The cache with the history of delete and clear: the steps are those of
\* the cache above; purged[key].unstarted holds from a delete of the key or
\* a clear until a set or a getOrSet for the key is started, and
\* purged[key].unstored until a value is stored for the key.
\* ======================================================================
NotPurged == [unstarted |-> FALSE, unstored |-> FALSE]
Purged == [unstarted |-> TRUE, unstored |-> TRUE]

getOrSetStarted(c, key, ttlSeconds) ==
    /\ getOrSetStep(c, key, ttlSeconds)
    /\ purged' = [purged EXCEPT ![key].unstarted = FALSE]
    /\ UNCHANGED notCD

computeStored(c, v) ==
    /\ computeResolvesStep(c, v)
    /\ purged' = [purged EXCEPT ![gets[c].key].unstored = FALSE]
    /\ UNCHANGED notCD

computeFailed(c, e) ==
    /\ computeRejectsStep(c, e)
    /\ UNCHANGED purged
    /\ UNCHANGED notCD

setCalled(key, v, ttlSeconds) ==
    /\ cacheSetStep(key, v, ttlSeconds)
    /\ purged' = [purged EXCEPT ![key] = NotPurged]
    /\ UNCHANGED notCD

deleteReturned(key) ==
    /\ cacheDeleteStep(key)
    /\ purged' = [purged EXCEPT ![key] = Purged]
    /\ UNCHANGED notCD

clearReturned ==
    /\ cacheClearStep
    /\ purged' = [k \in CacheKeys |-> Purged]
    /\ UNCHANGED notCD

CDTick ==
    /\ CATickStep
    /\ UNCHANGED purged
    /\ UNCHANGED notCD

\* The history while another component is looked at.
CDUnused == purged = [k \in CacheKeys |-> NotPurged]

\* The pipeline while another component is looked at.
PLUnused ==
    /\ audits = [a \in Audits |->
           [status |-> "bank_connected", total_waste_found |-> "null", error |-> "none",
            plaid_access_token |-> TRUE]]
    /\ txTable = [a \in Audits |-> <<>>]
    /\ leaksTable = [a \in Audits |-> <<>>]
    /\ runs = [a \in Audits |-> IdleRun]

\* The analyzer while another component is looked at.
AIUnused ==
    /\ aib = AIBConstructor(0)
    /\ acalls = [j \in Analyses |-> IdleAnalysis]

\* The durable breaker while another component is looked at.
PBUnused ==
    /\ pbCfg = [failureThreshold |-> 1, successThreshold |-> 1, timeout |-> WaitTicks]
    /\ db = NoRow
    /\ inst = [i \in Instances |-> IdleInstance]
    /\ detached = {}

\* The transient breaker while another component is looked at.
TBUnused ==
    /\ tbCfg = [failureThreshold |-> 1, successThreshold |-> 1,
                timeout |-> TimeoutTicks, resetTimeout |-> ResetTicks]
    /\ tb = TBConstructor(0)
    /\ calls = [k \in Calls |-> IdleCall]
    /\ streak = 0
    /\ streakAt = 0

PBInit ==
    /\ now = 0
    /\ PBStart
    /\ TBUnused
    /\ AIUnused
    /\ RCUnused
    /\ PLUnused
    /\ RPUnused
    /\ FBUnused
    /\ CAUnused
    /\ BPUnused
    /\ RTUnused
    /\ ARUnused
    /\ PSUnused
    /\ POUnused
    /\ CDUnused

AIInit ==
    /\ now = 0
    /\ AIUnused
    /\ TBUnused
    /\ PBUnused
    /\ RCUnused
    /\ PLUnused
    /\ RPUnused
    /\ FBUnused
    /\ CAUnused
    /\ BPUnused
    /\ RTUnused
    /\ ARUnused
    /\ PSUnused
    /\ POUnused
    /\ CDUnused

AINext ==
    \/ \E j \in Analyses : analyzeWithAI(j)
    \/ \E j \in Analyses, resp \in Responses : apiResolves(j, resp)
    \/ \E j \in Analyses : apiRejects(j)
    \/ \E j \in Analyses : analysisReturns(j)
    \/ AITick

SpecAI == AIInit /\ [][AINext]_vars

\* The analyzer with two overlapping analyses, whatever the number of
\* callers: enough for a call sent before the circuit opened to be answered
\* after it.
OverlappingAnalyses == {1, 2}

AIPairNext ==
    \/ \E j \in OverlappingAnalyses : analyzeWithAI(j)
    \/ \E j \in OverlappingAnalyses, resp \in Responses : apiResolves(j, resp)
    \/ \E j \in OverlappingAnalyses : apiRejects(j)
    \/ \E j \in OverlappingAnalyses : analysisReturns(j)
    \/ AITick

SpecAIPair == AIInit /\ [][AIPairNext]_vars

PBNext ==
    \/ \E i \in Instances : getStateSelect(i)
    \/ \E i \in Instances : getStateInsert(i)
    \/ \E i \in Instances : halfOpenStored(i)
    \/ \E i \in Instances : actionResolves(i)
    \/ \E i \in Instances : successStored(i)
    \/ \E i \in Instances : actionRejects(i)
    \/ \E w \in detached : failStored(w)
    \/ \E i \in Instances : fireReturns(i)
    \/ PBTick

SpecPB == PBInit /\ [][PBNext]_vars


TBInit ==
    /\ now = 0
    /\ tbCfg \in [failureThreshold : 1..MaxThreshold, successThreshold : 1..MaxThreshold,
                  timeout : {TimeoutTicks}, resetTimeout : {ResetTicks}]
    /\ tb = TBConstructor(0)
    /\ calls = [k \in Calls |-> IdleCall]
    /\ streak = 0
    /\ streakAt = 0
    /\ PBUnused
    /\ AIUnused
    /\ RCUnused
    /\ PLUnused
    /\ RPUnused
    /\ FBUnused
    /\ CAUnused
    /\ BPUnused
    /\ RTUnused
    /\ ARUnused
    /\ PSUnused
    /\ POUnused
    /\ CDUnused

TBNext ==
    \/ \E k \in Calls : execute(k)
    \/ \E k \in Calls : workResolves(k)
    \/ \E k \in Calls : workRejects(k)
    \/ \E k \in Calls : timerFires(k)
    \/ \E k \in Calls : workCompletesLate(k)
    \/ \E k \in Calls : callerContinues(k)
    \/ TBTick

SpecTB == TBInit /\ [][TBNext]_vars

\* The transient breaker with a per-call timeout that may be shorter than
\* resetTimeout, as in the breakers the module constructs (lines 87-100).
ShortThresholds == {1, 2}

TBShortInit ==
    /\ now = 0
    /\ tbCfg \in [failureThreshold : ShortThresholds, successThreshold : ShortThresholds,
                  timeout : {1, TimeoutTicks}, resetTimeout : {ResetTicks}]
    /\ tb = TBConstructor(0)
    /\ calls = [k \in Calls |-> IdleCall]
    /\ streak = 0
    /\ streakAt = 0
    /\ PBUnused
    /\ AIUnused
    /\ RCUnused
    /\ PLUnused
    /\ RPUnused
    /\ FBUnused
    /\ CAUnused
    /\ BPUnused
    /\ RTUnused
    /\ ARUnused
    /\ PSUnused
    /\ POUnused
    /\ CDUnused

SpecTBShort == TBShortInit /\ [][TBNext]_vars

RCInit ==
    /\ now = 0
    /\ \E u \in Units : transactions \in TxLists(u)
    /\ given = transactions
    /\ recurring = <<>>
    /\ TBUnused
    /\ PBUnused
    /\ AIUnused
    /\ PLUnused
    /\ RPUnused
    /\ FBUnused
    /\ CAUnused
    /\ BPUnused
    /\ RTUnused
    /\ ARUnused
    /\ PSUnused
    /\ POUnused
    /\ CDUnused

RCNext == detect

SpecRC == RCInit /\ [][RCNext]_vars

\* An audit is paid for and its bank is connected (exchange-token.js lines
\* 56-62 store the access token), or the token is missing.
PLInit ==
    /\ now \in RunDays
    /\ audits \in [Audits ->
           [status : {"bank_connected"}, total_waste_found : {"null"}, error : {"none"},
            plaid_access_token : BOOLEAN]]
    /\ txTable = [a \in Audits |-> <<>>]
    /\ leaksTable = [a \in Audits |-> <<>>]
    /\ runs = [a \in Audits |-> IdleRun]
    /\ TBUnused
    /\ PBUnused
    /\ AIUnused
    /\ RCUnused
    /\ RPUnused
    /\ FBUnused
    /\ CAUnused
    /\ BPUnused
    /\ RTUnused
    /\ ARUnused
    /\ PSUnused
    /\ POUnused
    /\ CDUnused

PLNext ==
    \/ \E a \in Audits : fetchTransactions(a)
    \/ \E a \in Audits, feed \in Feeds : bankResolves(a, feed)
    \/ \E a \in Audits, message \in {"Plaid error", "Operation timeout"} : bankRejects(a, message)
    \/ \E a \in Audits : errorHandled(a)
    \/ \E a \in Audits : errorHandlerThrows(a)
    \/ \E a \in Audits : triggerLost(a)
    \/ \E a \in Audits : detectLeaks(a)
    \/ \E a \in Audits : \E c \in Classifications(a) : classified(a, c)

SpecPL == PLInit /\ [][PLNext]_vars

RPInit ==
    /\ now = 0
    /\ rpCharges \in ChargeLists
    /\ rpAuditId \in Audits
    /\ rpPrompt = NoPrompt
    /\ rpResponse = NoResponse
    /\ rpReturned = NotSettled
    /\ TBUnused
    /\ PBUnused
    /\ AIUnused
    /\ RCUnused
    /\ PLUnused
    /\ FBUnused
    /\ CAUnused
    /\ BPUnused
    /\ RTUnused
    /\ ARUnused
    /\ PSUnused
    /\ POUnused
    /\ CDUnused

RPNext ==
    \/ rpFire
    \/ \E resp \in LongResponses : rpResolves(resp)
    \/ rpRejects

SpecRP == RPInit /\ [][RPNext]_vars

FBInit ==
    /\ now \in FBToday
    /\ fbCharges \in SeriesLists
    /\ fbCalled = FALSE
    /\ fbOutcome = [ok |-> TRUE, leaks |-> <<>>]
    /\ TBUnused
    /\ PBUnused
    /\ AIUnused
    /\ RCUnused
    /\ PLUnused
    /\ RPUnused
    /\ CAUnused
    /\ BPUnused
    /\ RTUnused
    /\ ARUnused
    /\ PSUnused
    /\ POUnused
    /\ CDUnused

FBNext == fallbackRuns

SpecFB == FBInit /\ [][FBNext]_vars

\* constructor, lines 5-8, and the module's cache (line 49): both Maps empty.
CAInit ==
    /\ now = 0
    /\ store = EmptyMap
    /\ ttl = EmptyMap
    /\ gets = [c \in Gets |-> IdleGet]
    /\ failedLast = [k \in CacheKeys |-> 0]
    /\ TBUnused
    /\ PBUnused
    /\ AIUnused
    /\ RCUnused
    /\ PLUnused
    /\ RPUnused
    /\ FBUnused
    /\ BPUnused
    /\ RTUnused
    /\ ARUnused
    /\ PSUnused
    /\ POUnused
    /\ CDUnused

CANext ==
    \/ \E c \in Gets, key \in CacheKeys, ttlSeconds \in TtlSeconds : getOrSet(c, key, ttlSeconds)
    \/ \E c \in Gets, v \in CacheValues : computeResolves(c, v)
    \/ \E c \in Gets, e \in CacheErrors : computeRejects(c, e)
    \/ \E key \in CacheKeys, v \in CacheValues, ttlSeconds \in TtlSeconds : cacheSet(key, v, ttlSeconds)
    \/ \E key \in CacheKeys : cacheDelete(key)
    \/ cacheClear
    \/ CATick

SpecCA == CAInit /\ [][CANext]_vars

\* constructor, lines 16-21: the queue is empty and no timeout is set.
BPInit ==
    /\ now = 0
    /\ bpCfg \in [maxBatchSize : BatchSizes, maxWaitTime : WaitTimes]
    /\ queue = <<>>
    /\ timer = NoTimer
    /\ batches = <<>>
    /\ promises = [i \in Items |-> NoPromise]
    /\ TBUnused
    /\ PBUnused
    /\ AIUnused
    /\ RCUnused
    /\ PLUnused
    /\ RPUnused
    /\ FBUnused
    /\ CAUnused
    /\ RTUnused
    /\ ARUnused
    /\ PSUnused
    /\ POUnused
    /\ CDUnused

ResultLists == {SubSeq(BatchResults, 1, n) : n \in 0..Len(BatchResults)}

BPNext ==
    \/ \E item \in Items : add(item)
    \/ flushTimerFires
    \/ flush
    \/ \E b \in Items : \E results \in ResultLists : processResolves(b, results)
    \/ \E b \in Items, error \in BatchErrors : processRejects(b, error)
    \/ BPTick

SpecBP == BPInit /\ [][BPNext]_vars

\* The same with the scheduling the claim assumes: a due timeout fires, the
\* clock moves on, and each processBatch call settles.
SpecBPLive ==
    /\ BPInit
    /\ [][BPNext]_vars
    /\ WF_vars(flushTimerFires)
    /\ WF_vars(BPTick)
    /\ \A b \in Items :
         WF_vars((\E results \in ResultLists : processResolves(b, results))
                    \/ (\E error \in BatchErrors : processRejects(b, error)))

RTInit ==
    /\ now = 0
    /\ retryOptions \in [maxAttempts : 1..MaxAttempts, initialDelay : InitialDelays,
                         maxDelay : MaxDelays, exponentialBase : ExponentialBases]
    /\ retryCall = IdleRetry
    /\ TBUnused
    /\ PBUnused
    /\ AIUnused
    /\ RCUnused
    /\ PLUnused
    /\ RPUnused
    /\ FBUnused
    /\ CAUnused
    /\ BPUnused
    /\ ARUnused
    /\ PSUnused
    /\ POUnused
    /\ CDUnused

RTNext ==
    \/ retry
    \/ \E v \in RetryValues : fnResolves(v)
    \/ \E e \in RetryErrors : fnRejects(e)
    \/ delayElapsed
    \/ RTTick

SpecRT == RTInit /\ [][RTNext]_vars

\* The same with the scheduling the claim assumes: fn settles, timeouts end
\* and the clock moves on.
SpecRTLive ==
    /\ RTInit
    /\ [][RTNext]_vars
    /\ WF_vars((\E v \in RetryValues : fnResolves(v)) \/ (\E e \in RetryErrors : fnRejects(e)))
    /\ WF_vars(delayElapsed)
    /\ WF_vars(RTTick)

ARInit ==
    /\ now = 0
    /\ arError \in RecoveryErrors
    /\ arResult = NoRecovery
    /\ TBUnused
    /\ PBUnused
    /\ AIUnused
    /\ RCUnused
    /\ PLUnused
    /\ RPUnused
    /\ FBUnused
    /\ CAUnused
    /\ BPUnused
    /\ RTUnused
    /\ PSUnused
    /\ POUnused
    /\ CDUnused

ARNext == recoveryAttempted

SpecAR == ARInit /\ [][ARNext]_vars

PSInit ==
    /\ now = 0
    /\ psCfg \in [failureThreshold : PSThresholds, successThreshold : PSThresholds,
                  timeout : {WaitTicks}]
    /\ psDb \in {NoRow, initialState(0)}
    /\ psFire = IdleFire
    /\ psWrites = {}
    /\ psHist = NoHistory
    /\ TBUnused
    /\ PBUnused
    /\ AIUnused
    /\ RCUnused
    /\ PLUnused
    /\ RPUnused
    /\ FBUnused
    /\ CAUnused
    /\ BPUnused
    /\ RTUnused
    /\ ARUnused
    /\ POUnused
    /\ CDUnused

PSNext ==
    \/ fire
    \/ \E ok \in BOOLEAN : selectAnswered(ok)
    \/ \E ok \in BOOLEAN : insertAnswered(ok)
    \/ \E ok \in BOOLEAN : halfOpenUpdated(ok)
    \/ actionSucceeds
    \/ \E ok \in BOOLEAN : successUpdated(ok)
    \/ actionFails
    \/ \E w \in psWrites, ok \in BOOLEAN : failUpdated(w, ok)
    \/ PSTick

SpecPS == PSInit /\ [][PSNext]_vars

POInit ==
    /\ now \in RunDays
    /\ audits \in [Audits ->
           [status : {"bank_connected"}, total_waste_found : {"null"}, error : {"none"},
            plaid_access_token : BOOLEAN]]
    /\ txTable = [a \in Audits |-> <<>>]
    /\ leaksTable = [a \in Audits |-> <<>>]
    /\ runs = [a \in Audits |-> IdleRun]
    /\ stage = [a \in Audits |-> NoStage]
    /\ report = [a \in Audits |-> NoReport]
    /\ TBUnused
    /\ PBUnused
    /\ AIUnused
    /\ RCUnused
    /\ RPUnused
    /\ FBUnused
    /\ CAUnused
    /\ BPUnused
    /\ RTUnused
    /\ ARUnused
    /\ PSUnused
    /\ CDUnused

PONext ==
    \/ \E a \in POAudits : fetchTransactions(a)
    \/ \E a \in POAudits, feed \in Feeds : bankAnswers(a, feed)
    \/ \E a \in POAudits : transactionsStored(a)
    \/ \E a \in POAudits, message \in {"Plaid error", "Operation timeout"} : bankRejects(a, message)
    \/ \E a \in POAudits : errorHandled(a)
    \/ \E a \in POAudits : errorHandlerThrows(a)
    \/ \E a \in POAudits : triggerLost(a)
    \/ \E a \in POAudits : detectLeaks(a)
    \/ \E a \in POAudits : \E c \in Classifications(a) : leaksClassified(a, c)
    \/ \E a \in POAudits : leaksStored(a)
    \/ \E a \in POAudits : auditUpdated(a)
    \/ \E a \in POAudits : reportLost(a)
    \/ \E a \in POAudits : reportReadsAudit(a)
    \/ \E a \in POAudits : reportReadsLeaks(a)

SpecPO == POInit /\ [][PONext]_vars

CDInit ==
    /\ now = 0
    /\ store = EmptyMap
    /\ ttl = EmptyMap
    /\ gets = [c \in Gets |-> IdleGet]
    /\ failedLast = [k \in CacheKeys |-> 0]
    /\ purged = [k \in CacheKeys |-> NotPurged]
    /\ TBUnused
    /\ PBUnused
    /\ AIUnused
    /\ RCUnused
    /\ PLUnused
    /\ RPUnused
    /\ FBUnused
    /\ BPUnused
    /\ RTUnused
    /\ ARUnused
    /\ PSUnused
    /\ POUnused

\* The getOrSet calls and the deletes are for one key; set stores either key.
PurgedKeys == {"k1"}

CDNext ==
    \/ \E c \in Gets, key \in PurgedKeys, ttlSeconds \in TtlSeconds :
          getOrSetStarted(c, key, ttlSeconds)
    \/ \E c \in Gets, v \in CacheValues : computeStored(c, v)
    \/ \E c \in Gets, e \in CacheErrors : computeFailed(c, e)
    \/ \E key \in CacheKeys, ttlSeconds \in TtlSeconds : setCalled(key, "v1", ttlSeconds)
    \/ \E key \in PurgedKeys : deleteReturned(key)
    \/ clearReturned
    \/ CDTick

SpecCD == CDInit /\ [][CDNext]_vars

\* ---------------------------------------------------------------- steps
\* The step is call k entering execute.
ExecuteStep(k) == calls[k].pc = "idle" /\ calls'[k].pc # "idle"
\* The step records the failure of call k: its work threw, or its timer fired.
FailureStep(k) == calls[k].pc = "running" /\ calls'[k].pc \in {"failed", "timedout"}
\* The step records the success of call k.
SuccessStep(k) == calls[k].pc = "running" /\ calls'[k].pc = "succeeded"
\* The work of call k was not invoked.
NotInvoked(call) == call.pc = "rejected" /\ call.work = "none"

\* C1: while the breaker is OPEN and Date.now() < nextAttempt, an execute call
\* is rejected at once (the error that names the breaker), its work is not
\* invoked, and state, failureCount, successCount and nextAttempt stay as they
\* were.
C1_OpenRejects ==
    [][\A k \in Calls :
         (ExecuteStep(k) /\ tb.state = "OPEN" /\ now < tb.nextAttempt)
            => (NotInvoked(calls'[k]) /\ tb' = tb)]_vars

C1_Witness ==
    \E k \in Calls : /\ calls[k].pc = "rejected"
                     /\ tb.state = "OPEN"
                     /\ now < tb.nextAttempt

\* C2: from CLOSED with failureCount 0, the failureThreshold-th failure in a
\* row (thrown or timed out, no success in between) leaves the breaker OPEN
\* with nextAttempt = the time of that failure + resetTimeout, and every
\* execute call before that time is rejected without invoking its work.
C2_OpensAfterThreshold ==
    /\ [](streak >= tbCfg.failureThreshold /\ now < streakAt + tbCfg.resetTimeout
            => tb.state = "OPEN" /\ tb.nextAttempt = streakAt + tbCfg.resetTimeout)
    /\ [][(streak' = tbCfg.failureThreshold /\ streak' # streak)
            => tb'.state = "OPEN" /\ tb'.nextAttempt = now + tbCfg.resetTimeout]_vars
    /\ [][\A k \in Calls :
            (ExecuteStep(k) /\ streak >= tbCfg.failureThreshold
                            /\ now < streakAt + tbCfg.resetTimeout)
               => NotInvoked(calls'[k])]_vars

C2_Witness ==
    /\ streak = tbCfg.failureThreshold
    /\ tbCfg.failureThreshold >= 2
    /\ now > streakAt
    /\ \E k \in Calls : calls[k].pc = "rejected"

\* C3: while the breaker is HALF_OPEN and a trial call is still in flight, no
\* other execute call has its work invoked.
C3_SingleTrial ==
    [][\A k \in Calls :
         (/\ ExecuteStep(k)
          /\ tb.state = "HALF_OPEN"
          /\ \E j \in Calls \ {k} : calls[j].pc = "running" /\ calls[j].phase = "HALF_OPEN")
            => NotInvoked(calls'[k])]_vars

\* C4: in every HALF_OPEN state a failed call leaves the breaker OPEN with
\* nextAttempt = now + resetTimeout.
C4_HalfOpenFailureOpens ==
    [][\A k \in Calls :
         (FailureStep(k) /\ tb.state = "HALF_OPEN")
            => (tb'.state = "OPEN" /\ tb'.nextAttempt = now + tbCfg.resetTimeout)]_vars

\* C5: a success sets failureCount to 0; in HALF_OPEN it also counts the
\* success and closes the circuit (both counters 0) once successCount reaches
\* successThreshold; in CLOSED it changes neither state nor successCount.
C5_SuccessEffects ==
    [][\A k \in Calls :
         SuccessStep(k) =>
            /\ tb'.failureCount = 0
            /\ tb.state = "HALF_OPEN" =>
                 IF tb.successCount + 1 >= tbCfg.successThreshold
                 THEN tb'.state = "CLOSED" /\ tb'.successCount = 0
                 ELSE tb'.state = "HALF_OPEN" /\ tb'.successCount = tb.successCount + 1
            /\ tb.state = "CLOSED" =>
                 tb'.state = "CLOSED" /\ tb'.successCount = tb.successCount]_vars

C5_Witness ==
    \E k \in Calls : /\ calls[k].pc = "succeeded"
                     /\ calls[k].phase = "HALF_OPEN"
                     /\ tbCfg.successThreshold >= 2
                     /\ tb.state = "CLOSED"
                     /\ tb.failureCount = 0
                     /\ tb.successCount = 0

\* C6: a call whose work was invoked settles no later than the per-call
\* timeout after the invocation; the timeout is recorded as one failure, with
\* the effects of a thrown failure; the work completing after the timeout
\* changes neither the counters nor the state.
C6_TimeoutIsFailure ==
    /\ [](\A k \in Calls :
            calls[k].pc = "running" => now <= calls[k].invokedAt + tbCfg.timeout)
    /\ [][\A k \in Calls :
            (calls[k].pc = "running" /\ calls'[k].pc = "timedout") =>
               /\ now = calls[k].invokedAt + tbCfg.timeout
               /\ tb'.failureCount = tb.failureCount + 1
               /\ tb'.successCount = 0
               /\ IF tb.failureCount + 1 >= tbCfg.failureThreshold
                  THEN tb'.state = "OPEN" /\ tb'.nextAttempt = now + tbCfg.resetTimeout
                  ELSE tb'.state = tb.state /\ tb'.nextAttempt = tb.nextAttempt]_vars
    /\ [][\A k \in Calls :
            (calls[k].pc = "timedout" /\ calls[k].work = "pending"
                                      /\ calls'[k].work = "done") => tb' = tb]_vars

C6_Witness ==
    \E k \in Calls : /\ calls[k].pc = "timedout"
                     /\ calls[k].work = "done"
                     /\ tb.state = "OPEN"
                     /\ tb.failureCount >= tbCfg.failureThreshold

\* ---------------------------------------------------------------- durable
\* C7: with successThreshold = 1, a fire that finds the stored record OPEN
\* with next_attempt_at elapsed and whose action succeeds leaves the stored
\* record CLOSED with failure_count 0 and success_count 0.
C7_TrialSuccessCloses ==
    [][\A i \in Instances :
         (/\ inst[i].pc = "saving"
          /\ inst'[i].pc = "resolved"
          /\ inst[i].trial
          /\ pbCfg.successThreshold = 1)
            => (db'.state = "CLOSED" /\ db'.failure_count = 0 /\ db'.success_count = 0)]_vars

\* C8: a fire that finds the stored record HALF_OPEN, or has just stored
\* HALF_OPEN itself, and whose action fails leaves the stored record OPEN
\* with next_attempt_at = the time of the failure + timeout.
C8_StoredHalfOpenFailureOpens ==
    [][\A w \in detached :
         (w \notin detached' /\ (w.read = "HALF_OPEN" \/ w.trial))
            => (db'.state = "OPEN" /\ db'.next_attempt_at = w.at + pbCfg.timeout)]_vars

\* C9: a fire that finds no record for the service name stores the CLOSED
\* record with both counters 0 and goes on to invoke its action, also when
\* another instance does its first fire at the same time; one record results.
C9_FirstFireInvokes ==
    [][\A i \in Instances :
         (inst[i].pc = "inserting" /\ inst'[i].pc # "inserting")
            => (/\ inst'[i].pc = "action"
                /\ db'.state = "CLOSED"
                /\ db'.failure_count = 0
                /\ db'.success_count = 0)]_vars

\* ---------------------------------------------------------------- analyzer
\* C10: analyzeWithAI always resolves, to a list: whether the API call
\* resolved, threw, or was rejected by the breaker, and whatever the response
\* text holds; on every internal failure the list is empty.
C10_AlwaysResolves ==
    \A j \in Analyses :
        acalls[j].pc = "done" =>
            /\ acalls[j].result.kind = "resolved"
            /\ acalls[j].result.value \in Seq([audit_id : {j},
                                               fields : {"given", "undefined"},
                                               evidence : {"ai_analysis"}])
            /\ (acalls[j].via # "response" \/ acalls[j].result.diag # "none")
                  => acalls[j].result.value = <<>>

C10_Witness ==
    /\ \E j \in Analyses : acalls[j].pc = "done" /\ acalls[j].via = "circuitOpen"
    /\ \E j \in Analyses : /\ acalls[j].pc = "done"
                           /\ acalls[j].via = "response"
                           /\ acalls[j].result.diag = "error"

\* The step is analysis j entering analyzeWithAI.
AnalyzeStep(j) == acalls[j].pc = "idle" /\ acalls'[j].pc # "idle"

\* Analysis j has resolved to the empty list and its API call was never sent.
NotSent(a) == a.pc = "done" /\ a.via = "circuitOpen" /\ a.result.value = <<>>

\* A test request is under way: sent in HALF_OPEN and not answered yet.
TrialInFlight(j) == acalls[j].pc = "awaiting" /\ acalls[j].phase = "HALF_OPEN"

\* C11: once failureThreshold consecutive API calls have failed, every
\* analyzeWithAI call made before the wait has elapsed resolves to the empty
\* list and sends nothing; after the wait one test request is sent and no
\* other call is sent while it is under way; when the test request succeeds
\* the circuit is closed.
C11_BreakerProtocol ==
    [][\A j \in Analyses :
         /\ (AnalyzeStep(j) /\ aib.failureCount >= AIFailureThreshold
                            /\ now < aib.nextAttempt)
               => NotSent(acalls'[j])
         /\ (AnalyzeStep(j) /\ \E j2 \in Analyses \ {j} : TrialInFlight(j2))
               => NotSent(acalls'[j])
         /\ (TrialInFlight(j) /\ acalls'[j].via = "response")
               => aib'.state = "CLOSED"]_vars

\* ---------------------------------------------------------------- pipeline
\* The step is detect-leaks of audit a going on after analyzeWithAI resolved.
ClassifiedStep(a) == runs[a].pc = "classifying" /\ runs'[a].pc = "done"

RECURSIVE CostSum(_)
CostSum(leaks) == IF leaks = <<>> THEN 0 ELSE Head(leaks).annual_cost + CostSum(Tail(leaks))

C13_FallbackClassifies ==
    [][\A a \in Audits :
         (ClassifiedStep(a) /\ runs'[a].via \in {"apiError", "circuitOpen"}) =>
            LET charges == detectRecurringCharges(selectTransactions(a))
                expected == fallbackLeakDetection(charges, now).leaks
                added == SubSeq(leaksTable'[a], Len(leaksTable[a]) + 1, Len(leaksTable'[a]))
            IN  /\ Len(added) = Len(expected)
                /\ \A i \in 1..Len(expected) :
                     added[i].annual_cost = expected[i].annual_cost]_vars

\* A run that has failed: the bank could not be read (and the failure was
\* recorded or could not be), or detect-leaks found no transactions.
FailedRun(r) == r.pc \in {"fetchFailed", "fetchCrashed", "detectFailed"}

\* C14: when the run of an audit fails at any stage the audit ends failed,
\* with the error message in its metadata, and its stored transactions stay.
C14_FailureMarksAudit ==
    [][\A a \in Audits :
         /\ FailedRun(runs'[a]) =>
              /\ audits'[a].status = "failed"
              /\ audits'[a].error = runs'[a].error
         /\ Len(txTable'[a]) >= Len(txTable[a])
         /\ SubSeq(txTable'[a], 1, Len(txTable[a])) = txTable[a]]_vars

\* ---------------------------------------------------------------- detector
\* The merchant a spelling stands for, written out name by name.
Canonical(name) ==
    CASE name = <<"Netflix">>               -> <<"netflix">>
      [] name = <<Blank, "netflix", Blank>> -> <<"netflix">>
      [] name = <<"Hulu">>                  -> <<"hulu">>

\* The merchants of the list handed in, and the places of a merchant's charges.
Merchants == {Canonical(given[i].merchant_name) : i \in DOMAIN given}
Members(m) == {i \in DOMAIN given : Canonical(given[i].merchant_name) = m}
DatesOf(m) == {given[i].date : i \in Members(m)}

\* The gaps between date-consecutive charges add up to latest - earliest, and
\* there is one gap less than charges: the mean gap of m lies in [lo, hi].
MeanGapIn(m, lo, hi) ==
    LET span == MaxOf(DatesOf(m)) - MinOf(DatesOf(m))
        gaps == Cardinality(Members(m)) - 1
    IN  lo * gaps <= span /\ span <= hi * gaps

Bands ==
    { [freq |-> "weekly",    lo |-> 6,   hi |-> 9],
      [freq |-> "bi-weekly", lo |-> 13,  hi |-> 16],
      [freq |-> "monthly",   lo |-> 28,  hi |-> 32],
      [freq |-> "quarterly", lo |-> 88,  hi |-> 92],
      [freq |-> "annual",    lo |-> 363, hi |-> 367] }

SeriesIn(out) == {out[p] : p \in DOMAIN out}
Returned == {recurring[r] : r \in DOMAIN recurring}

\* C15: a merchant group of three charges or more gives a series of frequency
\* f exactly when the mean of its whole-day gaps lies in the closed band of f;
\* a mean in no band gives no series.
C15_BandByMean ==
    \A out \in Returned : \A m \in Merchants :
        Cardinality(Members(m)) >= 3 =>
            /\ \A b \in Bands :
                 (\E s \in SeriesIn(out) : s.merchant = m /\ s.frequency = b.freq)
                    <=> MeanGapIn(m, b.lo, b.hi)
            /\ \A s \in SeriesIn(out) :
                 s.merchant = m => \E b \in Bands : s.frequency = b.freq

\* A series was emitted for a mean on the upper edge of the monthly band, and
\* the list was not handed in sorted.
C15_Witness ==
    /\ recurring # <<>>
    /\ \E s \in SeriesIn(recurring[1]) :
         /\ s.frequency = "monthly"
         /\ MeanGapIn(s.merchant, 32, 32)
    /\ \E i \in DOMAIN given : i > 1 /\ given[i].date < given[i - 1].date

\* C16: in every emitted series each gap between date-consecutive charges
\* lies inside the band of the series' frequency.
C16_EveryGapInBand ==
    \A out \in Returned : \A s \in SeriesIn(out) :
        \A b \in Bands :
            s.frequency = b.freq =>
                \A i \in 1..(Len(s.transactions) - 1) :
                    LET gap == s.transactions[i + 1].date - s.transactions[i].date
                    IN  b.lo <= gap /\ gap <= b.hi

\* C17: a merchant with fewer than three charges never appears in the output,
\* every series counts its own transactions, three or more, and the empty
\* list gives the empty output.
C17_AtLeastThree ==
    \A out \in Returned :
        /\ \A s \in SeriesIn(out) :
             /\ Cardinality(Members(s.merchant)) >= 3
             /\ s.chargeCount = Len(s.transactions)
             /\ s.chargeCount >= 3
        /\ given = <<>> => out = <<>>

\* Two charges of one merchant a week apart, and nothing was reported.
C17_Witness ==
    /\ recurring # <<>>
    /\ recurring[1] = <<>>
    /\ \E m \in Merchants : Cardinality(Members(m)) = 2 /\ MeanGapIn(m, 7, 7)

\* How often transaction tx occurs in the sequence q.
Occurrences(q, tx) == Cardinality({i \in DOMAIN q : q[i] = tx})

\* C18: a series holds exactly the transactions of one merchant, spellings
\* that differ in case or surrounding blanks being one merchant; a merchant
\* has one series at most, named by the normalized name; the transactions
\* are in ascending order of date and lastCharge is the latest date.
C18_GroupedByNormalizedName ==
    \A out \in Returned :
        /\ \A s \in SeriesIn(out) :
             /\ s.merchant \in Merchants
             /\ \A tx \in {given[i] : i \in DOMAIN given} :
                  Occurrences(s.transactions, tx) =
                     IF Canonical(tx.merchant_name) = s.merchant
                     THEN Occurrences(given, tx) ELSE 0
             /\ Len(s.transactions) = Cardinality(Members(s.merchant))
             /\ \A i \in 1..(Len(s.transactions) - 1) :
                  s.transactions[i].date <= s.transactions[i + 1].date
             /\ s.lastCharge = MaxOf(DatesOf(s.merchant))
        /\ \A p, q \in DOMAIN out : out[p].merchant = out[q].merchant => p = q

\* A series made of both spellings of one merchant, from an unsorted list.
C18_Witness ==
    /\ recurring # <<>>
    /\ \E s \in SeriesIn(recurring[1]) :
         /\ \E i \in DOMAIN s.transactions : s.transactions[i].merchant_name = <<"Netflix">>
         /\ \E i \in DOMAIN s.transactions :
              s.transactions[i].merchant_name = <<Blank, "netflix", Blank>>
    /\ \E i \in DOMAIN given : i > 1 /\ given[i].date < given[i - 1].date

\* What the claim compares of a series.
Summary(s) == <<s.merchant, s.frequency, s.chargeCount, s.avgAmount, s.lastCharge>>
Summaries(out) == {Summary(s) : s \in SeriesIn(out)}
\* The list q with the elements at i and j exchanged.
Exchanged(q, i, j) == [q EXCEPT ![i] = q[j], ![j] = q[i]]

RECURSIVE TotalOf(_)
TotalOf(txs) == IF txs = <<>> THEN 0 ELSE Head(txs).amount + TotalOf(Tail(txs))

ArraysIn(text) ==
    {pq \in (1..Len(text)) \X (1..Len(text)) :
        /\ pq[1] <= pq[2]
        /\ text[pq[1]] = "["
        /\ jsonParse(SubSeq(text, pq[1], pq[2])).ok}
FirstArrayOf(text) ==
    LET pq == CHOOSE a \in ArraysIn(text) : \A b \in ArraysIn(text) : a[1] <= b[1]
    IN  jsonParse(SubSeq(text, pq[1], pq[2])).value

\* C21: whenever the text of the response holds a well-formed JSON array,
\* with or without prose around it, analyzeWithAI resolves with one leak per
\* element of the first such array, in order, each with the given auditId and
\* the evidence {ai_analysis: true}, none dropped and none added.
C21_FirstArrayOnly ==
    (rpResponse.shape = "message" /\ ArraysIn(rpResponse.text) # {}) =>
        LET elems == FirstArrayOf(rpResponse.text)
        IN  /\ rpReturned.kind = "resolved"
            /\ Len(rpReturned.value) = Len(elems)
            /\ \A p \in 1..Len(elems) :
                 /\ rpReturned.value[p].audit_id = rpAuditId
                 /\ rpReturned.value[p].evidence = "ai_analysis"
                 /\ (rpReturned.value[p].fields = "given") = (elems[p] = "o")

\* C22: analyzeWithAI given the empty list of series resolves with the empty
\* list, whatever the API answers.
C22_EmptyInEmptyOut ==
    (rpCharges = <<>> /\ rpReturned # NotSettled) =>
        (rpReturned.kind = "resolved" /\ rpReturned.value = <<>>)

\* ------------------------------------------- the fallback as a function
\* C23: in every leak the fallback emits, whatever its rule and whatever the
\* frequency of the series, annual_cost is twelve times monthly_cost.
C23_AnnualIsTwelveMonthly ==
    \A p \in 1..Len(fbOutcome.leaks) :
        fbOutcome.leaks[p].annual_cost = fbOutcome.leaks[p].monthly_cost_x12

\* What the three rules ask of one series, rule by rule: the type and the
\* confidence of each leak due, in the order of the rules.
DueOf(charge, today) ==
    (IF \E p \in 1..Len(charge.merchant) : charge.merchant[p] \in freeTools
     THEN <<[leak_type |-> "free_alternative", confidence_score |-> 95]>> ELSE <<>>)
    \o (IF today - charge.lastCharge > 90
        THEN <<[leak_type |-> "zombie", confidence_score |-> 75]>> ELSE <<>>)
    \o (IF monthlyCostX12(charge) > 12 * 10000
        THEN <<[leak_type |-> "unused", confidence_score |-> 60]>> ELSE <<>>)
RECURSIVE DueOfAll(_, _)
DueOfAll(charges, today) ==
    IF charges = <<>> THEN <<>>
    ELSE LET d == DueOf(Head(charges), today)
         IN  [i \in 1..Len(d) |-> [merchant_name |-> Head(charges).merchant,
                                   leak_type |-> d[i].leak_type,
                                   confidence_score |-> d[i].confidence_score]]
                \o DueOfAll(Tail(charges), today)
Emitted ==
    [i \in 1..Len(fbOutcome.leaks) |->
        [merchant_name |-> fbOutcome.leaks[i].merchant_name,
         leak_type |-> fbOutcome.leaks[i].leak_type,
         confidence_score |-> fbOutcome.leaks[i].confidence_score]]

\* C24: the three rules are evaluated independently for each series: a
\* free_alternative leak (0.95) exactly when the lowercased merchant names a
\* free tool, a zombie leak (0.75) exactly when more than 90 whole days have
\* passed since lastCharge, an unused leak (0.60) exactly when the monthly
\* cost is over 100; any subset for one series, each at most once.
C24_RulesIndependent ==
    fbCalled => Emitted = DueOfAll(fbCharges, now)

\* C25: the fallback never raises for series as detectRecurringCharges
\* makes them, a monthly series averaging more than 100 included: the call
\* returns a list of leaks.
C25_NeverRaises ==
    fbCalled => fbOutcome.ok

\* ------------------------------------------------------------ the cache
\* The step is call c entering getOrSet: its get, and what follows at once.
GetStep(c) == gets[c].pc = "idle" /\ gets'[c].pc # "idle"
\* The step is fn of call c resolving: the value is stored and returned.
StoredStep(c) == gets[c].pc = "computing" /\ gets'[c].pc = "returned"
\* The step is fn of call c failing.
RejectedStep(c) == gets[c].pc = "computing" /\ gets'[c].pc = "rejected"
\* A value has been stored for the key and has not expired.
Fresh(key) == key \in DOMAIN store /\ key \in DOMAIN ttl /\ now <= ttl[key]

\* C26: for every key and every value fn can return, getOrSet on a key whose
\* stored value has not expired returns that value without calling fn; on an
\* absent or expired key it calls fn exactly once, stores the result with
\* the expiry now + ttlSeconds and returns it.
C26_ComputeIfAbsent ==
    [][\A c \in Gets :
         /\ GetStep(c) =>
               IF Fresh(gets'[c].key)
               THEN /\ gets'[c].pc = "returned"
                    /\ gets'[c].result = store[gets'[c].key]
                    /\ gets'[c].invoked = 0
               ELSE /\ gets'[c].pc = "computing"
                    /\ gets'[c].invoked = 1
         /\ StoredStep(c) =>
               /\ gets'[c].invoked = 1
               /\ store'[gets[c].key] = gets'[c].result
               /\ ttl'[gets[c].key] = now + gets[c].ttlSeconds]_vars

\* C27: when fn fails, getOrSet rejects with that failure, the call leaves
\* store and ttl exactly as they were before it (it has neither stored nor
\* deleted anything), and the next getOrSet for the key calls fn again.
C27_FailureLeavesMaps ==
    [][\A c \in Gets :
         /\ RejectedStep(c) =>
               /\ gets'[c].result \in CacheErrors
               /\ store' = store /\ ttl' = ttl
               /\ ~gets'[c].stored /\ ~gets'[c].deleted
         /\ (GetStep(c) /\ failedLast[gets'[c].key] # 0) =>
               (gets'[c].pc = "computing" /\ gets'[c].invoked = 1)]_vars

\* C27, amended: when fn fails, getOrSet rejects with that failure and has
\* stored nothing; all the call has done to store and ttl is the deletion, by
\* its get, of the key's entry if that entry had expired; and the next
\* getOrSet for the key calls fn again unless a value has been stored for the
\* key since the failing call began.
C27_FailureNotCached ==
    [][\A c \in Gets :
         /\ GetStep(c) =>
               LET key == gets'[c].key
                   expired == key \in DOMAIN store /\ now > ttl[key]
               IN  /\ gets'[c].deleted = expired
                   /\ store' = IF expired THEN mapDelete(store, key) ELSE store
                   /\ ttl' = IF expired THEN mapDelete(ttl, key) ELSE ttl
         /\ RejectedStep(c) =>
               /\ gets'[c].result \in CacheErrors
               /\ store' = store /\ ttl' = ttl
               /\ ~gets'[c].stored
         /\ (GetStep(c) /\ failedLast[gets'[c].key] # 0
                /\ ~gets[failedLast[gets'[c].key]].overwritten) =>
               (gets'[c].pc = "computing" /\ gets'[c].invoked = 1)]_vars

\* A call has failed after its get deleted the expired entry of the key, and
\* the next call for the key is computing.
C27_Witness ==
    \E c, d \in Gets :
        /\ gets[c].pc = "rejected" /\ gets[c].deleted /\ ~gets[c].overwritten
        /\ gets[d].follows = c /\ gets[d].pc = "computing"
        /\ gets[c].key \notin DOMAIN store

\* -------------------------------------------------- the batch processor
RECURSIVE ItemsOfBatches(_)
ItemsOfBatches(bs) ==
    IF bs = <<>> THEN <<>> ELSE Head(bs).items \o ItemsOfBatches(Tail(bs))

\* C28: the promise of add(item) resolves with results[i], i being the
\* place of the item in the batch handed to processBatch; inside a batch the
\* items stand in the order they were added, and the batches are taken from
\* the queue first in, first out: the batches in the order taken, followed by
\* the queue, list the items in the order of their add calls.
C28_PositionalResults ==
    /\ \A b \in 1..Len(batches) :
         batches[b].status = "resolved" =>
            \A i \in 1..Len(batches[b].items) :
               /\ promises[batches[b].items[i]].state = "resolved"
               /\ promises[batches[b].items[i]].value =
                     IF i \in DOMAIN batches[b].results
                     THEN batches[b].results[i] ELSE "undefined"
    /\ ItemsOfBatches(batches) \o queue = [i \in 1..addedCount |-> i]

\* Two batches have been taken, and one of two items has resolved with two
\* different results.
C28_Witness ==
    /\ Len(batches) >= 2
    /\ \E b \in 1..Len(batches) :
         /\ batches[b].status = "resolved"
         /\ Len(batches[b].items) = 2
         /\ Len(batches[b].results) = 2
         /\ batches[b].results[1] # batches[b].results[2]

\* C29: an item is handed to processBatch as soon as the queue reaches
\* maxBatchSize or once maxWaitTime has passed since the first item still
\* queued was added, whichever comes first: the queue never stays at
\* maxBatchSize, and while it holds items a timeout is set for maxWaitTime
\* after the oldest one was added and is never overdue.  Hence, whatever the
\* interleaving of adds, timeouts and flushes, the promise of every add
\* settles in the end, provided each processBatch call settles.
C29_EveryAddSettles ==
    /\ [](/\ Len(queue) < bpCfg.maxBatchSize
          /\ queue # <<>> =>
                /\ timer.set
                /\ timer.due = promises[Head(queue)].at + bpCfg.maxWaitTime
                /\ now <= timer.due)
    /\ \A i \in Items :
         (promises[i].state = "pending") ~> (promises[i].state \in {"resolved", "rejected"})

\* Three kinds of flush have each taken a batch, and every promise has
\* settled.
C29_Witness ==
    /\ \E b \in 1..Len(batches) : batches[b].via = "timer" /\ batches[b].status # "running"
    /\ \E b \in 1..Len(batches) : batches[b].via = "size" /\ batches[b].status # "running"
    /\ \A i \in Items : promises[i].state \in {"resolved", "rejected"}

\* C30: flush takes the queue's items atomically: whatever the interleaving
\* of adds, flushes of the three kinds and processBatch calls under way, each
\* added item is in the queue or in exactly one batch, never both and never
\* twice, and a batch has at most maxBatchSize items; when processBatch fails
\* the promises of that batch, and no others, are rejected, with the error of
\* the batch.
C30_AtomicTake ==
    /\ \A i \in 1..addedCount :
         Cardinality(Positions1(ItemsOfBatches(batches) \o queue, i)) = 1
    /\ \A b \in 1..Len(batches) :
         /\ Len(batches[b].items) \in 1..bpCfg.maxBatchSize
         /\ \A p \in 1..Len(batches[b].items) :
              LET pr == promises[batches[b].items[p]]
              IN  CASE batches[b].status = "rejected" ->
                          pr.state = "rejected" /\ pr.value = batches[b].error
                    [] batches[b].status = "resolved" -> pr.state = "resolved"
                    [] OTHER -> pr.state = "pending"
    /\ \A p \in 1..Len(queue) : promises[queue[p]].state = "pending"

\* One batch has failed while another was under way, and the other one then
\* resolved.
C30_Witness ==
    \E b, c \in 1..Len(batches) :
        /\ batches[b].status = "rejected"
        /\ batches[c].status = "resolved"
        /\ b < c
        /\ queue # <<>>

\* ----------------------------------------------------------------------
\* C31: retry with maxAttempts >= 1 calls fn at most maxAttempts times; it
\* stops at the first success and resolves with that result; when every
\* attempt failed it rejects with the error of the last attempt, at the
\* moment of that failure; attempt k+1 starts min(initialDelay *
\* exponentialBase^(k-1), maxDelay) after attempt k failed; and a call that
\* has started settles once fn settles.
RetrySafe ==
    /\ Len(retryCall.starts) <= retryOptions.maxAttempts
    /\ Len(retryCall.starts) = retryCall.attempt
    /\ retryCall.pc = "resolved" =>
          /\ Len(retryCall.fails) = retryCall.attempt - 1
          /\ retryCall.outcome \in RetryValues
    /\ retryCall.pc = "rejected" =>
          /\ Len(retryCall.fails) = retryOptions.maxAttempts
          /\ retryCall.attempt = retryOptions.maxAttempts
          /\ retryCall.outcome = retryCall.fails[retryOptions.maxAttempts].error
          /\ retryCall.settledAt = retryCall.fails[retryOptions.maxAttempts].at
    /\ \A k \in 1..Len(retryCall.starts) - 1 :
          LET d == retryOptions.initialDelay * pow(retryOptions.exponentialBase, k - 1)
          IN  retryCall.starts[k + 1] - retryCall.fails[k].at =
                 IF d <= retryOptions.maxDelay THEN d ELSE retryOptions.maxDelay

C31_RetryTerminates ==
    /\ []RetrySafe
    /\ (retryCall.pc \in {"calling", "waiting"}) ~> (retryCall.pc \in {"resolved", "rejected"})

\* Three attempts failed with a capped second delay, and the call rejected
\* with the last error, which differs from the first.
C31_Witness ==
    /\ retryCall.pc = "rejected"
    /\ retryOptions.maxAttempts = 3
    /\ retryCall.starts[3] - retryCall.fails[2].at = retryOptions.maxDelay
    /\ retryOptions.initialDelay * retryOptions.exponentialBase > retryOptions.maxDelay
    /\ retryCall.fails[1].error # retryCall.outcome

\* ----------------------------------------------------------------------
\* C32: attemptRecovery returns one action for every error, that of the
\* first rule that matches in the order ITEM_LOGIN_REQUIRED -> plaid_reauth,
\* 'rate limit' -> retry_later, type StripeCardError -> check_payment_status,
\* 'anthropic' -> fallback_analysis, 'connection' -> retry_connection,
\* otherwise manual_intervention; and recoverable is false exactly for
\* manual_intervention.
RecoveryRules ==
    <<[fragment |-> "ITEM_LOGIN_REQUIRED", type |-> "", action |-> "plaid_reauth"],
      [fragment |-> "rate limit", type |-> "", action |-> "retry_later"],
      [fragment |-> "", type |-> "StripeCardError", action |-> "check_payment_status"],
      [fragment |-> "anthropic", type |-> "", action |-> "fallback_analysis"],
      [fragment |-> "connection", type |-> "", action |-> "retry_connection"]>>

RuleMatches(i) ==
    IF RecoveryRules[i].type # ""
    THEN arError.type = RecoveryRules[i].type
    ELSE /\ arError.hasMessage
         /\ RecoveryRules[i].fragment \in {arError.message[j] : j \in 1..Len(arError.message)}

ReadAnswered ==
    /\ psFire.pc \in {"selecting", "inserting"}
    /\ psFire'.pc \notin {"selecting", "inserting"}

C33_SequentialFailuresOpen ==
    [][(/\ ReadAnswered
        /\ psHist.armed
        /\ psHist.streak = psCfg.failureThreshold
        /\ ~psHist'.faults
        /\ now < psHist.lastFailAt + psCfg.timeout)
          => (/\ psFire'.pc = "settled"
              /\ psFire'.outcome = "circuitOpen"
              /\ ~psFire'.invoked)]_vars

\* ----------------------------------------------------------------------
\* C37: once the action has been invoked, fire settles as the action did:
\* it resolves with the action's result when the action resolved and
\* rejects with the action's error when it rejected, also when the write of
\* the breaker's record fails.
C37_OutcomeIsActionOutcome ==
    (psFire.pc = "settled" /\ psFire.invoked) =>
       /\ psFire.actionOutcome = "resolved" => psFire.outcome = "result"
       /\ psFire.actionOutcome = "rejected" => psFire.outcome = "actionError"

\* ----------------------------------------------------------------------
\* C34: within one audit's pipeline the stages follow one another: the rows
\* of the bank are stored before detect-leaks is requested; the leaks are
\* stored before the audit is updated to completed with its total; and the
\* report stage is requested after that update, so that what it reads is
\* the completed audit with its total and all its leaks.
AfterTrigger ==
    {"triggered", "notTriggered", "detectFailed", "classifying", "storingLeaks",
     "updating", "done"}

SpecPOLive ==
    /\ POInit
    /\ [][PONext]_vars
    /\ \A a \in POAudits :
          /\ WF_vars(fetchTransactions(a))
          /\ WF_vars((\E feed \in Feeds : bankAnswers(a, feed))
                        \/ (\E message \in {"Plaid error", "Operation timeout"} :
                               bankRejects(a, message)))
          /\ WF_vars(transactionsStored(a))
          /\ WF_vars(errorHandled(a) \/ errorHandlerThrows(a))
          /\ WF_vars(triggerLost(a) \/ detectLeaks(a))
          /\ WF_vars(\E c \in Classifications(a) : leaksClassified(a, c))
          /\ WF_vars(leaksStored(a))
          /\ WF_vars(auditUpdated(a))
          /\ WF_vars(reportLost(a) \/ reportReadsAudit(a))
          /\ WF_vars(reportReadsLeaks(a))

\* ----------------------------------------------------------------------
\* C40: every audit whose status has become analyzing ends with the status
\* completed or failed, whatever the bank call, the query of the
\* transactions, the AI call and the request of the next stage do, when
\* every started handler runs to its end.  A run whose error could not be
\* recorded (ErrorHandler.handle rejected) is left aside.
C40_AnalyzingEnds ==
    \A a \in POAudits :
       (audits[a].status = "analyzing") ~>
          (audits[a].status \in {"completed", "failed"} \/ runs[a].pc = "fetchCrashed")

\* ----------------------------------------------------------------------
\* C35: in every reachable state of the transient breaker, whatever the
\* interleaving of overlapping execute calls: CLOSED implies failureCount <
\* failureThreshold and successCount = 0; successCount > 0 implies
\* HALF_OPEN; and neither counter is negative.
C35_CounterInvariant ==
    /\ tb.state = "CLOSED" =>
          (tb.failureCount < tbCfg.failureThreshold /\ tb.successCount = 0)
    /\ tb.successCount > 0 => tb.state = "HALF_OPEN"
    /\ tb.failureCount >= 0
    /\ tb.successCount >= 0

\* Two calls overlap in a HALF_OPEN breaker that has counted a success, one
\* of them invoked before the breaker opened.
C35_Witness ==
    /\ tb.state = "HALF_OPEN"
    /\ tb.successCount > 0
    /\ \E k1, k2 \in Calls :
          /\ k1 # k2
          /\ calls[k1].pc = "running"
          /\ calls[k2].pc = "running"
          /\ calls[k1].phase = "CLOSED"

\* ----------------------------------------------------------------------
\* C36: a success is counted toward closing the breaker (successCount
\* grows or the state becomes CLOSED) only when its call was started during
\* the current HALF_OPEN period, that is after the wait that followed the
\* last opening; the outcome of a call whose work was invoked before the
\* breaker last opened is not counted.
CountedTowardClosing(k) ==
    /\ calls[k].pc = "running"
    /\ calls'[k].pc = "succeeded"
    /\ tb.state = "HALF_OPEN"
    /\ tb'.state = "CLOSED" \/ tb'.successCount > tb.successCount

StartedInCurrentHalfOpen(k) ==
    /\ calls[k].phase = "HALF_OPEN"
    /\ calls[k].invokedAt >= tb.nextAttempt

C36_OnlyCurrentTrialsClose ==
    [][\A k \in Calls : CountedTowardClosing(k) => StartedInCurrentHalfOpen(k)]_vars

\* C36 as amended: the same for a breaker whose per-call timeout is shorter
\* than its resetTimeout.
C36_ShortTimeoutTrialsClose ==
    [][\A k \in Calls :
          (tbCfg.timeout < tbCfg.resetTimeout /\ CountedTowardClosing(k))
             => StartedInCurrentHalfOpen(k)]_vars

\* With a short timeout: a call invoked while CLOSED has timed out, and a
\* call started after the wait has closed the breaker.
C36_Witness ==
    /\ tbCfg.timeout < tbCfg.resetTimeout
    /\ tb.state = "CLOSED"
    /\ \E k1, k2 \in Calls :
          /\ calls[k1].pc = "succeeded"
          /\ calls[k1].phase = "HALF_OPEN"
          /\ calls[k2].pc = "timedout"
          /\ calls[k2].phase = "CLOSED"

\* ----------------------------------------------------------------------
\* C38: an API call that resolves with a response without a parseable JSON
\* array (no array, a SyntaxError, or no text at all) is recorded by the
\* analyzer's breaker as a success: failureCount is 0 afterwards, the
\* circuit is not opened and its wait is not prolonged.
MalformedAnswered(j) ==
    /\ acalls[j].pc = "awaiting"
    /\ acalls'[j].pc = "done"
    /\ acalls'[j].via = "response"
    /\ acalls'[j].result.diag \in {"noArray", "error"}

C38_MalformedIsSuccess ==
    [][\A j \in Analyses :
          MalformedAnswered(j) =>
             /\ aib'.failureCount = 0
             /\ aib'.state = "OPEN" => aib.state = "OPEN"
             /\ aib'.nextAttempt = aib.nextAttempt]_vars

\* After a failed API call an unparseable response has set failureCount
\* back to 0.
C38_Witness ==
    \E j1, j2 \in Analyses :
       /\ acalls[j1].pc = "done"
       /\ acalls[j1].via = "apiError"
       /\ acalls[j2].pc = "done"
       /\ acalls[j2].via = "response"
       /\ acalls[j2].result.diag = "error"
       /\ aib.failureCount = 0
       /\ aib.state = "CLOSED"

\* ----------------------------------------------------------------------
\* C39: once delete(key) or clear() has returned, get(key) returns absent
\* until a set or a getOrSet for the key is started afterwards, also when a
\* getOrSet for the key was awaiting its computeFn at the delete; and the
\* Maps store and ttl always hold the same keys.
C39_AbsentUntilRestarted ==
    /\ \A key \in CacheKeys : purged[key].unstarted => cacheGet(key, now).value = "null"
    /\ DOMAIN store = DOMAIN ttl

\* C39 as amended: get(key) returns absent until a value is stored for the
\* key, by a set or by a getOrSet whose computeFn resolves, whenever that
\* getOrSet was started.
C39_AbsentUntilStored ==
    /\ \A key \in CacheKeys : purged[key].unstored => cacheGet(key, now).value = "null"
    /\ DOMAIN store = DOMAIN ttl

\* A key was deleted while a getOrSet for it was computing, nothing has
\* been stored since, and another key is stored.
C39_Witness ==
    /\ purged["k1"].unstored
    /\ purged["k1"].unstarted
    /\ \E c \in Gets : gets[c].pc = "computing" /\ gets[c].key = "k1"
    /\ "k1" \notin DOMAIN store
    /\ "k2" \in DOMAIN store

====
